---- MODULE Spec2Model ----
(***************************************************************************)
(* A model of the storage-and-concurrency core of bustub.                  *)
(*                                                                         *)
(* Part 1: the hierarchical lock manager                                   *)
(* (src/src/concurrency/lock_manager.cpp).                                 *)
(*                                                                         *)
(* A call of LockTable / LockRow / UnlockTable / UnlockRow is one action:  *)
(* the checks before the latches read only the calling transaction's own   *)
(* state and lock sets (a transaction is driven by one thread), and from   *)
(* the map latch to the return, or to the wait on the queue's condition    *)
(* variable, the call runs under the queue latch.  The continuation of a   *)
(* waiting call after a wake-up is the action WakeUp.                      *)
(***************************************************************************)
EXTENDS Integers, Sequences, FiniteSets, TLC

\* ------------------------------------------------------------------ bounds
NumTxns   == 2   \* transactions 1..NumTxns
NumTables == 2   \* table oids 0..NumTables-1
NumRows   == 1   \* row ids 1..NumRows
MaxCalls  == 4   \* lock-manager calls made in one run
MaxQueue  == 3   \* requests held by one queue

INVALID_TXN_ID == -1

Txns == 1..NumTxns
Oids == 0..(NumTables - 1)
Rids == 1..NumRows
\* RID(): the default-constructed record id the table calls pass
NoRid == -1
\* the table a row belongs to (callers pass the row's own table oid)
TableOf(rid) == rid % NumTables

Modes == {"S", "X", "IS", "IX", "SIX"}
IsolationLevels == {"READ_UNCOMMITTED", "READ_COMMITTED", "REPEATABLE_READ"}
TxnStates == {"GROWING", "SHRINKING", "COMMITTED", "ABORTED"}

VARIABLES
  iso,      \* iso[t]: isolation level of transaction t
  state,    \* state[t]: TransactionState of t
  tls,      \* tls[t][m]: the table oids in t's table lock set of mode m
  rls,      \* rls[t][m]: the rids in t's row lock set of mode m (m is S or X)
  tmap,     \* tmap[oid]: table_lock_map_[oid], a LockRequestQueue
  rmap,     \* rmap[rid]: row_lock_map_[rid]
  wait,     \* wait[t]: the queue whose condition variable t's call waits on
  woken,    \* waiting transactions whose wait has returned and must recheck
  last,     \* the most recent call: its arguments and its outcome
  ncalls,   \* number of calls made
  crashed   \* the process has died (failed assert, uncaught exception, fault)

lmvars == <<iso, state, tls, rls, tmap, rmap, wait, woken, last, ncalls, crashed>>

\* The buffer pool manager instance (Part 2) and a replacer used alone (Part 3)
VARIABLES
  pages_,        \* pages_[f]: the Page in frame f: page_id_, pin_count_, is_dirty_, data_
  page_table_,   \* the page directory: a function from the resident page ids to frames
  free_list_,    \* the list of free frames
  next_page_id_, \* the next page id AllocatePage() returns
  replacer_,     \* the pool's LRUKReplacer
  disk,          \* disk[p]: the contents of page p on disk
  bplast,        \* the outcome of the most recent pool call
  pagehist,      \* history of page p: data: its contents at the last unpin with
                 \* is_dirty; frame: the frame it was in then; reused: that frame
                 \* was given to another page since; deleted: it was deleted since;
                 \* unallocated: it was fetched before new_page returned its id
  lru,           \* a LRUKReplacer driven directly
  lrulast        \* the most recent call on lru, its outcome, and acc[f]: the timestamps
                 \* of the accesses recorded for f since lru began to track it

bpvars == <<pages_, page_table_, free_list_, next_page_id_, replacer_, disk, bplast, pagehist>>
lruvars == <<lru, lrulast>>

VARIABLES
  ht,            \* an ExtendibleHashTable<int, int>: global_depth_, num_buckets_, dir_, buckets
  htlast         \* the outcome of the most recent table call, the number of calls, and
                 \* m: the finite map the calls so far describe (0: no value)

VARIABLES
  bt,            \* a BPlusTree: root_page_id_, the two max sizes, and its pages
  btlast,        \* the most recent index call and its outcome, the number of calls,
                 \* m: the map the calls so far describe (0: no value), before: what
                 \* get returned for every key before the call, it: the live iterator
  thr            \* thr[th]: the index call thread th is in and the latches it holds

htvars == <<ht, htlast>>
btvars == <<bt, btlast, thr>>
vars == <<lmvars, bpvars, lruvars, htvars, btvars>>

\* what the calls of one component leave alone: the other components
notlm == <<bpvars, lruvars, htvars, btvars>>
notbp == <<lmvars, lruvars, htvars, btvars>>
notlru == <<lmvars, bpvars, htvars, btvars>>
notht == <<lmvars, bpvars, lruvars, btvars>>
\* the calls made one at a time leave the threads alone
notbt == <<lmvars, bpvars, lruvars, htvars, thr>>
notcc == <<lmvars, bpvars, lruvars, htvars>>

\* ---------------------------------------------------------- lock requests
Req(t, m, g) == [txn |-> t, mode |-> m, granted |-> g]

EmptyQueue == [exists |-> FALSE, q |-> <<>>, upgrading |-> INVALID_TXN_ID]

\* std::find_if over a request list: the first position that matches, or end()
FindTxn(q, t) ==
  IF \E i \in 1..Len(q) : q[i].txn = t
  THEN CHOOSE i \in 1..Len(q) : q[i].txn = t /\ \A j \in 1..(i - 1) : q[j].txn # t
  ELSE Len(q) + 1

FindUngranted(q) ==
  IF \E i \in 1..Len(q) : ~q[i].granted
  THEN CHOOSE i \in 1..Len(q) : ~q[i].granted /\ \A j \in 1..(i - 1) : q[j].granted
  ELSE Len(q) + 1

\* std::list::erase and std::list::insert (before position pos)
Erase(q, i) == SubSeq(q, 1, i - 1) \o SubSeq(q, i + 1, Len(q))
InsertAt(q, pos, r) == SubSeq(q, 1, pos - 1) \o <<r>> \o SubSeq(q, pos, Len(q))

\* the position of t's request that is still waiting
WaitingPos(q, t) ==
  IF \E i \in 1..Len(q) : q[i].txn = t /\ ~q[i].granted
  THEN CHOOSE i \in 1..Len(q) : q[i].txn = t /\ ~q[i].granted
  ELSE Len(q) + 1

\* CompatibleMatrix[held][requested]
CompatibleMatrix(a, b) ==
  CASE a = "IS"  -> b \in {"IS", "IX", "S", "SIX"}
    [] a = "IX"  -> b \in {"IS", "IX"}
    [] a = "S"   -> b \in {"IS", "S"}
    [] a = "SIX" -> b \in {"IS"}
    [] a = "X"   -> FALSE

\* LockManager::CheckCompability(request_queue, iter), iter at position pos
CheckCompability(q, pos) ==
  \A i \in 1..(pos - 1) : \A j \in 1..(i - 1) :
    CompatibleMatrix(q[i].mode, q[j].mode)

\* CheckLockReasonability without its last test: REPEATABLE_READ is treated in
\* SHRINKING as in GROWING.
CheckLockReasonability_NoRepeatableRead(st, mode, isolation, row) ==
  IF row /\ mode \in {"IX", "IS", "SIX"} THEN "ATTEMPTED_INTENTION_LOCK_ON_ROW"
  ELSE IF st = "SHRINKING" /\ mode \in {"IX", "X"} THEN "LOCK_ON_SHRINKING"
  ELSE IF isolation = "READ_UNCOMMITTED" /\ mode \in {"S", "IS", "SIX"}
    THEN "LOCK_SHARED_ON_READ_UNCOMMITTED"
  ELSE IF isolation = "READ_UNCOMMITTED" /\ st = "SHRINKING" THEN "LOCK_ON_SHRINKING"
  ELSE IF isolation = "READ_COMMITTED" /\ st = "SHRINKING" /\ mode \notin {"IS", "S"}
    THEN "LOCK_ON_SHRINKING"
  ELSE "OK"

\* CheckLockReasonability with READ_COMMITTED allowing only IS in SHRINKING.
CheckLockReasonability_OnlyIS(st, mode, isolation, row) ==
  IF row /\ mode \in {"IX", "IS", "SIX"} THEN "ATTEMPTED_INTENTION_LOCK_ON_ROW"
  ELSE IF st = "SHRINKING" /\ mode \in {"IX", "X"} THEN "LOCK_ON_SHRINKING"
  ELSE IF isolation = "READ_UNCOMMITTED" /\ mode \in {"S", "IS", "SIX"}
    THEN "LOCK_SHARED_ON_READ_UNCOMMITTED"
  ELSE IF isolation = "READ_UNCOMMITTED" /\ st = "SHRINKING" THEN "LOCK_ON_SHRINKING"
  ELSE IF isolation = "READ_COMMITTED" /\ st = "SHRINKING" /\ mode # "IS"
    THEN "LOCK_ON_SHRINKING"
  ELSE IF isolation = "REPEATABLE_READ" /\ st = "SHRINKING" THEN "LOCK_ON_SHRINKING"
  ELSE "OK"

\* ------------------------------------------------- checks before the latch
\* LockManager::CheckLockReasonability: "OK", or the AbortReason thrown after
\* the transaction has been set ABORTED
CheckLockReasonability(st, mode, isolation, row) ==
  IF row /\ mode \in {"IX", "IS", "SIX"} THEN "ATTEMPTED_INTENTION_LOCK_ON_ROW"
  ELSE IF st = "SHRINKING" /\ mode \in {"IX", "X"} THEN "LOCK_ON_SHRINKING"
  ELSE IF isolation = "READ_UNCOMMITTED" /\ mode \in {"S", "IS", "SIX"}
    THEN "LOCK_SHARED_ON_READ_UNCOMMITTED"
  ELSE IF isolation = "READ_UNCOMMITTED" /\ st = "SHRINKING" THEN "LOCK_ON_SHRINKING"
  ELSE IF isolation = "READ_COMMITTED" /\ st = "SHRINKING" /\ mode \notin {"IS", "S"}
    THEN "LOCK_ON_SHRINKING"
  ELSE IF isolation = "REPEATABLE_READ" /\ st = "SHRINKING" THEN "LOCK_ON_SHRINKING"
  ELSE "OK"

\* The result of CheckUpgradability: code -1 (aborted, with the reason), 0 (an
\* upgrade), 1 (the mode is held already), 2 (a new request); fault: an
\* assert() failed (ndebug is FALSE in a build that keeps assert()).
Upg(c, r) == [code |-> c, reason |-> r, fault |-> FALSE]
UpgFault(r) == [code |-> -1, reason |-> r, fault |-> TRUE]

\* LockManager::CheckUpgradability, row == true: the table lock the row lock
\* needs, then the row lock sets
CheckUpgradabilityRow(t, mode, oid, rid, ndebug) ==
  LET inS == rid \in rls[t]["S"]
      inX == rid \in rls[t]["X"]
  IN IF mode = "X" /\ oid \notin (tls[t]["X"] \cup tls[t]["IX"] \cup tls[t]["SIX"])
       THEN Upg(-1, "TABLE_LOCK_NOT_PRESENT")
     ELSE IF mode = "S" /\ oid \notin (tls[t]["S"] \cup tls[t]["IS"] \cup tls[t]["IX"])
       THEN IF ~ndebug /\ oid \in tls[t]["X"]
            THEN UpgFault("TABLE_LOCK_NOT_PRESENT")
            ELSE Upg(-1, "TABLE_LOCK_NOT_PRESENT")
     ELSE IF inS /\ mode = "S" THEN Upg(1, "-")
     ELSE IF inS /\ mode = "X" THEN Upg(0, "-")
     ELSE IF inS /\ ~ndebug THEN UpgFault("-")
     ELSE IF inX /\ mode = "X" THEN Upg(1, "-")
     ELSE IF inX /\ ~ndebug THEN UpgFault("-")
     ELSE Upg(2, "-")

\* LockManager::CheckUpgradability, row == false
CheckUpgradabilityTable(t, mode, oid) ==
  IF oid \in tls[t]["IS"]
    THEN IF mode = "IS" THEN Upg(1, "-") ELSE Upg(0, "-")
  ELSE IF oid \in tls[t]["S"]
    THEN IF mode = "S" THEN Upg(1, "-")
         ELSE IF mode \in {"X", "SIX"} THEN Upg(0, "-")
         ELSE Upg(-1, "INCOMPATIBLE_UPGRADE")
  ELSE IF oid \in tls[t]["IX"]
    THEN IF mode = "IX" THEN Upg(1, "-")
         ELSE IF mode \in {"X", "SIX"} THEN Upg(0, "-")
         ELSE Upg(-1, "INCOMPATIBLE_UPGRADE")
  ELSE IF oid \in tls[t]["SIX"]
    THEN IF mode = "SIX" THEN Upg(1, "-")
         ELSE IF mode = "X" THEN Upg(0, "-")
         ELSE Upg(-1, "INCOMPATIBLE_UPGRADE")
  ELSE Upg(2, "-")

CheckUpgradability(t, mode, oid, rid, row, ndebug) ==
  IF row THEN CheckUpgradabilityRow(t, mode, oid, rid, ndebug)
  ELSE CheckUpgradabilityTable(t, mode, oid)

\* UpdateTransactionState with READ_COMMITTED treated as REPEATABLE_READ: the
\* unlock of S ends the growing phase too.
UpdateTransactionState_SharedShrinks(st, isolation, unlocked_mode) ==
  IF isolation = "REPEATABLE_READ" /\ unlocked_mode \in {"S", "X"} /\ st = "GROWING"
    THEN "SHRINKING"
  ELSE IF isolation = "READ_COMMITTED" /\ unlocked_mode \in {"S", "X"} /\ st = "GROWING"
    THEN "SHRINKING"
  ELSE IF isolation = "READ_UNCOMMITTED" /\ unlocked_mode = "X" /\ st = "GROWING"
    THEN "SHRINKING"
  ELSE st

\* LockManager::UpdateTransactionState: the state after unlocking unlocked_mode
UpdateTransactionState(st, isolation, unlocked_mode) ==
  IF isolation = "REPEATABLE_READ" /\ unlocked_mode \in {"S", "X"} /\ st = "GROWING"
    THEN "SHRINKING"
  ELSE IF isolation = "READ_COMMITTED" /\ unlocked_mode = "X" /\ st = "GROWING"
    THEN "SHRINKING"
  ELSE IF isolation = "READ_UNCOMMITTED" /\ unlocked_mode = "X" /\ st = "GROWING"
    THEN "SHRINKING"
  ELSE st

\* the rows of table oid in a row lock set
RowsOf(set, oid) == {r \in set : TableOf(r) = oid}

\* LockManager::CheckUnlockReasonability: "OK" or the AbortReason
CheckUnlockReasonability(t, oid, rid, row) ==
  IF row
  THEN IF rid \in rls[t]["S"] \/ rid \in rls[t]["X"]
       THEN "OK" ELSE "ATTEMPTED_UNLOCK_BUT_NO_LOCK_HELD"
  ELSE IF /\ oid \notin tls[t]["S"] /\ oid \notin tls[t]["X"]
          /\ oid \notin tls[t]["IS"] /\ 0 \notin tls[t]["IX"]
          /\ oid \notin tls[t]["SIX"]
       THEN "ATTEMPTED_UNLOCK_BUT_NO_LOCK_HELD"
  ELSE IF RowsOf(rls[t]["S"], oid) # {} \/ RowsOf(rls[t]["X"], oid) # {}
       THEN "TABLE_UNLOCKED_BEFORE_UNLOCKING_ROWS"
  ELSE "OK"

\* ------------------------------------------------------------- the queue
\* What a Lock call does to its queue Q once both checks have passed
\* (LockTable lines 37-97, LockRow lines 116-177).  ret: "true" (granted),
\* "wait" (blocked on cv_), "abort" (reason thrown), "fault" (the old request
\* of an upgrade is not in the queue: erase(end())).  erased: the mode of the
\* request an upgrade removed, "-" when none was.
Out(Q, ret, reason, erased) == [Q |-> Q, ret |-> ret, reason |-> reason, erased |-> erased]

LockOutcome(Q, t, mode, upgrade) ==
  IF ~Q.exists
  THEN Out([exists |-> TRUE, q |-> <<Req(t, mode, TRUE)>>, upgrading |-> INVALID_TXN_ID],
           "true", "-", "-")
  ELSE IF upgrade /\ Q.upgrading # INVALID_TXN_ID
  THEN Out(Q, "abort", "UPGRADE_CONFLICT", "-")
  ELSE IF upgrade /\ FindTxn(Q.q, t) > Len(Q.q)
  THEN Out(Q, "fault", "-", "-")
  ELSE
    LET old == FindTxn(Q.q, t)
        q1  == IF upgrade THEN Erase(Q.q, old) ELSE Q.q
        pos == IF upgrade THEN FindUngranted(q1) ELSE Len(q1) + 1
        q2  == InsertAt(q1, pos, Req(t, mode, FALSE))
        up  == IF upgrade THEN t ELSE Q.upgrading
        gone == IF upgrade THEN Q.q[old].mode ELSE "-"
    IN IF CheckCompability(q2, pos)
       THEN Out([exists |-> TRUE,
                 q |-> [q2 EXCEPT ![pos].granted = TRUE],
                 upgrading |-> IF up = t THEN INVALID_TXN_ID ELSE up],
                "true", "-", gone)
       ELSE Out([exists |-> TRUE, q |-> q2, upgrading |-> up], "wait", "-", gone)

\* LockManager::InsertLockToTransaction / DeleteLockInTransaction on one
\* transaction's table lock sets ts and row lock sets rs
InsertTableLock(ts, mode, oid) == [ts EXCEPT ![mode] = @ \cup {oid}]
DeleteTableLock(ts, mode, oid) ==
  IF mode \in Modes THEN [ts EXCEPT ![mode] = @ \ {oid}] ELSE ts
InsertRowLock(rs, mode, rid) ==
  IF mode = "S" THEN [rs EXCEPT !["S"] = @ \cup {rid}]
  ELSE [rs EXCEPT !["X"] = @ \cup {rid}]
DeleteRowLock(rs, mode, rid) ==
  IF mode \in {"S", "X"} THEN [rs EXCEPT ![mode] = @ \ {rid}] ELSE rs
\* std::map::at(oid) throws std::out_of_range when the set has no row of oid
DeleteRowLockThrows(rs, mode, rid) ==
  mode \in {"S", "X"} /\ RowsOf(rs[mode], TableOf(rid)) = {}

\* ------------------------------------------------------------- the calls
NoWait == [on |-> "none", id |-> -1]
WaitOn(row, oid, rid) == IF row THEN [on |-> "row", id |-> rid] ELSE [on |-> "table", id |-> oid]

\* The outcome of a call.  ret: "true" (returned true), "wait" (blocked on
\* cv_), "abort" (the transaction was set ABORTED and an exception thrown) or
\* "fault" (the process died).  reason: the AbortReason of an abort; for a
\* call that returns true, how it did: "held" (check_code == 1), "granted",
\* "woken" (granted after a wait), "unlocked".  from: the mode of the request
\* an upgrade replaced, "-" when the call was no upgrade.
Call(ret, reason, from) == [ret |-> ret, reason |-> reason, from |-> from]

\* The effect of LockTable (row = FALSE) / LockRow (row = TRUE) on the calling
\* transaction (st, ts, rs) and on the queue of the resource (Q)
LockResult(t, mode, oid, rid, row, ndebug) ==
  LET Q0     == IF row THEN rmap[rid] ELSE tmap[oid]
      reason == CheckLockReasonability(state[t], mode, iso[t], row)
      cu     == CheckUpgradability(t, mode, oid, rid, row, ndebug)
      o      == LockOutcome(Q0, t, mode, cu.code = 0)
      same   == [st |-> state[t], ts |-> tls[t], rs |-> rls[t], Q |-> Q0,
                 ret |-> "true", reason |-> "held", from |-> "-"]
  IN IF reason # "OK"
       THEN [same EXCEPT !.st = "ABORTED", !.ret = "abort", !.reason = reason]
     ELSE IF cu.fault
       THEN [same EXCEPT !.st = IF cu.reason # "-" THEN "ABORTED" ELSE @,
                         !.ret = "fault", !.reason = "-"]
     ELSE IF cu.code = -1
       THEN [same EXCEPT !.st = "ABORTED", !.ret = "abort", !.reason = cu.reason]
     ELSE IF cu.code = 1 THEN same
     ELSE IF o.ret = "abort"
       THEN [same EXCEPT !.st = "ABORTED", !.ret = "abort", !.reason = o.reason]
     ELSE IF o.ret = "fault" THEN [same EXCEPT !.ret = "fault", !.reason = "-"]
     ELSE IF row /\ DeleteRowLockThrows(rls[t], o.erased, rid)
       THEN [same EXCEPT !.ret = "fault", !.reason = "-"]
     ELSE
       LET ts1 == IF row THEN tls[t] ELSE DeleteTableLock(tls[t], o.erased, oid)
           rs1 == IF row THEN DeleteRowLock(rls[t], o.erased, rid) ELSE rls[t]
       IN [st |-> state[t],
           ts |-> IF ~row /\ o.ret = "true" THEN InsertTableLock(ts1, mode, oid) ELSE ts1,
           rs |-> IF row /\ o.ret = "true" THEN InsertRowLock(rs1, mode, rid) ELSE rs1,
           Q |-> o.Q, ret |-> o.ret,
           reason |-> IF o.ret = "true" THEN "granted" ELSE "-", from |-> o.erased]

\* The effect of UnlockTable (row = FALSE) / UnlockRow (row = TRUE); mode is
\* unlocked_mode
UnlockResult(t, oid, rid, row) ==
  LET Q0     == IF row THEN rmap[rid] ELSE tmap[oid]
      reason == CheckUnlockReasonability(t, oid, rid, row)
      i      == FindTxn(Q0.q, t)
      same   == [st |-> state[t], ts |-> tls[t], rs |-> rls[t], Q |-> Q0,
                 ret |-> "true", reason |-> "-", mode |-> "-"]
  IN IF reason # "OK"
       THEN [same EXCEPT !.st = "ABORTED", !.ret = "abort", !.reason = reason]
     \* assert(count != 0) of a debug build; a null queue pointer otherwise
     ELSE IF ~Q0.exists THEN [same EXCEPT !.ret = "fault"]
     \* find_if returned end(): (*iter)->lock_mode_
     ELSE IF i > Len(Q0.q) THEN [same EXCEPT !.ret = "fault"]
     ELSE IF row /\ DeleteRowLockThrows(rls[t], Q0.q[i].mode, rid)
       THEN [same EXCEPT !.ret = "fault"]
     ELSE
       LET m == Q0.q[i].mode
       IN [st |-> UpdateTransactionState(state[t], iso[t], m),
           ts |-> IF row THEN tls[t] ELSE DeleteTableLock(tls[t], m, oid),
           rs |-> IF row THEN DeleteRowLock(rls[t], m, rid) ELSE rls[t],
           Q |-> [Q0 EXCEPT !.q = Erase(@, i)],
           ret |-> "true", reason |-> "unlocked", mode |-> m]

\* the transactions blocked on a queue's cv_
Waiters(w) == {u \in DOMAIN wait : wait[u] = w}

CanCall(t) == ~crashed /\ wait[t] = NoWait /\ ncalls < MaxCalls
\* a transaction that was set ABORTED is rolled back by its caller: it releases
\* its locks and asks for no new one
CanLock(t) == CanCall(t) /\ state[t] # "ABORTED"

LockTable(t, mode, oid) ==
  /\ CanLock(t)
  /\ LET R == LockResult(t, mode, oid, NoRid, FALSE, TRUE)
     IN /\ Len(R.Q.q) <= MaxQueue
        /\ state' = [state EXCEPT ![t] = R.st]
        /\ tls' = [tls EXCEPT ![t] = R.ts]
        /\ rls' = [rls EXCEPT ![t] = R.rs]
        /\ tmap' = [tmap EXCEPT ![oid] = R.Q]
        /\ wait' = [wait EXCEPT ![t] = IF R.ret = "wait" THEN WaitOn(FALSE, oid, NoRid) ELSE NoWait]
        /\ crashed' = (R.ret = "fault")
        /\ last' = Call(R.ret, R.reason, R.from)
  /\ ncalls' = ncalls + 1
  /\ UNCHANGED <<iso, rmap, woken, notlm>>

LockRow(t, mode, rid, ndebug) ==
  /\ CanLock(t)
  /\ LET oid == TableOf(rid)
         R == LockResult(t, mode, oid, rid, TRUE, ndebug)
     IN /\ Len(R.Q.q) <= MaxQueue
        /\ state' = [state EXCEPT ![t] = R.st]
        /\ tls' = [tls EXCEPT ![t] = R.ts]
        /\ rls' = [rls EXCEPT ![t] = R.rs]
        /\ rmap' = [rmap EXCEPT ![rid] = R.Q]
        /\ wait' = [wait EXCEPT ![t] = IF R.ret = "wait" THEN WaitOn(TRUE, oid, rid) ELSE NoWait]
        /\ crashed' = (R.ret = "fault")
        /\ last' = Call(R.ret, R.reason, R.from)
  /\ ncalls' = ncalls + 1
  /\ UNCHANGED <<iso, tmap, woken, notlm>>

UnlockTable(t, oid) ==
  /\ CanCall(t)
  /\ LET R == UnlockResult(t, oid, NoRid, FALSE)
     IN /\ state' = [state EXCEPT ![t] = R.st]
        /\ tls' = [tls EXCEPT ![t] = R.ts]
        /\ rls' = [rls EXCEPT ![t] = R.rs]
        /\ tmap' = [tmap EXCEPT ![oid] = R.Q]
        \* cv_.notify_all()
        /\ woken' = IF R.ret = "true" /\ R.mode # "-"
                    THEN woken \cup Waiters(WaitOn(FALSE, oid, NoRid)) ELSE woken
        /\ crashed' = (R.ret = "fault")
        /\ last' = Call(R.ret, R.reason, "-")
  /\ ncalls' = ncalls + 1
  /\ UNCHANGED <<iso, rmap, wait, notlm>>

UnlockRow(t, rid) ==
  /\ CanCall(t)
  /\ LET oid == TableOf(rid)
         R == UnlockResult(t, oid, rid, TRUE)
     IN /\ state' = [state EXCEPT ![t] = R.st]
        /\ tls' = [tls EXCEPT ![t] = R.ts]
        /\ rls' = [rls EXCEPT ![t] = R.rs]
        /\ rmap' = [rmap EXCEPT ![rid] = R.Q]
        /\ woken' = IF R.ret = "true" /\ R.mode # "-"
                    THEN woken \cup Waiters(WaitOn(TRUE, oid, rid)) ELSE woken
        /\ crashed' = (R.ret = "fault")
        /\ last' = Call(R.ret, R.reason, "-")
  /\ ncalls' = ncalls + 1
  /\ UNCHANGED <<iso, tmap, wait, notlm>>

\* cv_.wait() may return without a notification
SpuriousWakeUp(t) ==
  /\ ~crashed
  /\ wait[t] # NoWait
  /\ t \notin woken
  /\ woken' = woken \cup {t}
  /\ UNCHANGED <<iso, state, tls, rls, tmap, rmap, wait, last, ncalls, crashed, notlm>>

\* The wait loop of LockTable (lines 89-97) / LockRow (lines 168-177) after
\* cv_.wait() has returned: check again, then wait again or take the lock
WakeUp(t) ==
  /\ ~crashed
  /\ wait[t] # NoWait
  /\ t \in woken
  /\ woken' = woken \ {t}
  /\ LET row == wait[t].on = "row"
         id  == wait[t].id
         Q0  == IF row THEN rmap[id] ELSE tmap[id]
         pos == WaitingPos(Q0.q, t)
     IN IF CheckCompability(Q0.q, pos)
        THEN LET Q1 == [Q0 EXCEPT !.q[pos].granted = TRUE,
                                  !.upgrading = IF @ = t THEN INVALID_TXN_ID ELSE @]
                 m  == Q0.q[pos].mode
             IN /\ tmap' = IF row THEN tmap ELSE [tmap EXCEPT ![id] = Q1]
                /\ rmap' = IF row THEN [rmap EXCEPT ![id] = Q1] ELSE rmap
                /\ tls' = IF row THEN tls ELSE [tls EXCEPT ![t] = InsertTableLock(@, m, id)]
                /\ rls' = IF row THEN [rls EXCEPT ![t] = InsertRowLock(@, m, id)] ELSE rls
                /\ wait' = [wait EXCEPT ![t] = NoWait]
                /\ last' = Call("true", "woken", "-")
        ELSE UNCHANGED <<tmap, rmap, tls, rls, wait, last>>
  /\ UNCHANGED <<iso, state, ncalls, crashed, notlm>>

\* The deadlock detector or an upper layer sets the state of a transaction
\* ABORTED while its lock call is blocked in cv_.wait()
AbortWaiting(t) ==
  /\ ~crashed
  /\ wait[t] # NoWait
  /\ state[t] # "ABORTED"
  /\ state' = [state EXCEPT ![t] = "ABORTED"]
  /\ UNCHANGED <<iso, tls, rls, tmap, rmap, wait, woken, last, ncalls, crashed, notlm>>

\* The lock manager compares transaction ids only for equality, so the
\* transactions are interchangeable: their isolation levels are drawn in
\* non-decreasing order of id.
IsoRank(l) ==
  CASE l = "READ_UNCOMMITTED" -> 0 [] l = "READ_COMMITTED" -> 1 [] l = "REPEATABLE_READ" -> 2
IsoChoices ==
  {f \in [Txns -> IsolationLevels] :
     \A t, u \in Txns : t < u => IsoRank(f[t]) <= IsoRank(f[u])}

LMNext ==
  \/ \E t \in Txns, m \in Modes, o \in Oids : LockTable(t, m, o)
  \/ \E t \in Txns, m \in Modes, r \in Rids, nd \in BOOLEAN : LockRow(t, m, r, nd)
  \/ \E t \in Txns, o \in Oids : UnlockTable(t, o)
  \/ \E t \in Txns, r \in Rids : UnlockRow(t, r)
  \/ \E t \in Txns : SpuriousWakeUp(t)
  \/ \E t \in Txns : WakeUp(t)

\* the lock manager with transactions that are aborted while they wait
LMAbortNext ==
  \/ LMNext
  \/ \E t \in Txns : AbortWaiting(t)


\* ------------------------------------------------ runs with other bounds
\* lock_table and unlock_table as above, in a run of at most max calls
LockTableWithin(t, mode, oid, max) ==
  /\ ~crashed /\ wait[t] = NoWait /\ state[t] # "ABORTED"
  /\ ncalls < max
  /\ LET R == LockResult(t, mode, oid, NoRid, FALSE, TRUE)
     IN /\ Len(R.Q.q) <= MaxQueue
        /\ state' = [state EXCEPT ![t] = R.st]
        /\ tls' = [tls EXCEPT ![t] = R.ts]
        /\ rls' = [rls EXCEPT ![t] = R.rs]
        /\ tmap' = [tmap EXCEPT ![oid] = R.Q]
        /\ wait' = [wait EXCEPT ![t] = IF R.ret = "wait" THEN WaitOn(FALSE, oid, NoRid) ELSE NoWait]
        /\ crashed' = (R.ret = "fault")
        /\ last' = Call(R.ret, R.reason, R.from)
  /\ ncalls' = ncalls + 1
  /\ UNCHANGED <<iso, rmap, woken, notlm>>

UnlockTableWithin(t, oid, max) ==
  /\ ~crashed /\ wait[t] = NoWait
  /\ ncalls < max
  /\ LET R == UnlockResult(t, oid, NoRid, FALSE)
     IN /\ state' = [state EXCEPT ![t] = R.st]
        /\ tls' = [tls EXCEPT ![t] = R.ts]
        /\ rls' = [rls EXCEPT ![t] = R.rs]
        /\ tmap' = [tmap EXCEPT ![oid] = R.Q]
        \* cv_.notify_all()
        /\ woken' = IF R.ret = "true" /\ R.mode # "-"
                    THEN woken \cup Waiters(WaitOn(FALSE, oid, NoRid)) ELSE woken
        /\ crashed' = (R.ret = "fault")
        /\ last' = Call(R.ret, R.reason, "-")
  /\ ncalls' = ncalls + 1
  /\ UNCHANGED <<iso, rmap, wait, notlm>>

\* three transactions on one table: an upgrade can be left waiting
NumUpTxns == 3
MaxUpCalls == 6
UpTxns == 1..NumUpTxns
UpModes == {"IS", "S", "X"}
UpIsoChoices ==
  {f \in [UpTxns -> {"READ_COMMITTED", "REPEATABLE_READ"}] :
     \A t, u \in UpTxns : t < u => IsoRank(f[t]) <= IsoRank(f[u])}

UPNext ==
  \/ \E t \in UpTxns, m \in UpModes : LockTableWithin(t, m, 0, MaxUpCalls)
  \/ \E t \in UpTxns : UnlockTableWithin(t, 0, MaxUpCalls)
  \/ \E t \in UpTxns : WakeUp(t)


\* two transactions on two tables: each can block on a table the other holds
MaxDlCalls == 6
DlModes == {"IS", "X"}

\* One round of the background detector: it sleeps for the interval and does
\* nothing (the body is empty; AddEdge and RemoveEdge are empty and HasCycle
\* returns false)
RunCycleDetection ==
  /\ ~crashed
  /\ UNCHANGED vars

DLNext ==
  \/ \E t \in Txns, m \in DlModes, o \in Oids : LockTableWithin(t, m, o, MaxDlCalls)
  \/ \E t \in Txns, o \in Oids : UnlockTableWithin(t, o, MaxDlCalls)
  \/ \E t \in Txns : WakeUp(t)
  \/ RunCycleDetection


\* =================================================== Part 2: LRUKReplacer
\* A replacer is the record of its members: k_, access_history_ (the list of
\* <frame, access record> pairs; rec[1] is the latest timestamp, rec[k_] the
\* k-th latest, 0 where there is none; the vector's slot 0 is never used),
\* evictable_map_ and non_evictable_map_ (their key sets; the values are the
\* frames' list positions) and current_timestamp_.
MaxK == 3
NumFrames == 3
Frames == 0..(NumFrames - 1)

LRUKReplacer(k) ==
  [k_ |-> k, access_history_ |-> <<>>, evictable_map_ |-> {},
   non_evictable_map_ |-> {}, current_timestamp_ |-> 0]

\* std::find_if on access_history_: first position whose frame is in set S
FindFrameIn(h, S) ==
  IF \E i \in 1..Len(h) : h[i].frame \in S
  THEN CHOOSE i \in 1..Len(h) : h[i].frame \in S /\ \A j \in 1..(i - 1) : h[j].frame \notin S
  ELSE Len(h) + 1

\* FindFull that always answers end(): a new frame goes to the back of the list
FindFull_End(h, k) == Len(h) + 1

\* first position whose record has k accesses (it.second.back() != 0)
FindFull(h, k) ==
  IF \E i \in 1..Len(h) : h[i].rec[k] # 0
  THEN CHOOSE i \in 1..Len(h) : h[i].rec[k] # 0 /\ \A j \in 1..(i - 1) : h[j].rec[k] = 0
  ELSE Len(h) + 1

\* AfterNewPos that leaves the entry where it is
AfterNewPos_Stay(h, from, k, kth) == from

\* the position the loop of lines 65-68 stops at, in the list without the
\* moved entry: the first position from `from` on whose k-th timestamp is
\* neither 0 nor smaller than kth
AfterNewPos(h, from, k, kth) ==
  LET stop(i) == ~(h[i].rec[k] = 0 \/ h[i].rec[k] < kth)
  IN IF \E i \in from..Len(h) : stop(i)
     THEN CHOOSE i \in from..Len(h) : stop(i) /\ \A j \in from..(i - 1) : ~stop(j)
     ELSE Len(h) + 1

\* Evict that takes the first frame of the list, evictable or not
Evict_First(r) ==
  IF r.access_history_ = <<>>
  THEN [ok |-> FALSE, frame |-> -1, r |-> r]
  ELSE [ok |-> TRUE, frame |-> r.access_history_[1].frame,
        r |-> [r EXCEPT !.evictable_map_ = @ \ {r.access_history_[1].frame},
                        !.non_evictable_map_ = @ \ {r.access_history_[1].frame},
                        !.access_history_ = Tail(@)]]

\* LRUKReplacer::Evict: [ok, frame, r]
Evict(r) ==
  LET i == FindFrameIn(r.access_history_, r.evictable_map_)
  IN IF i > Len(r.access_history_)
     THEN [ok |-> FALSE, frame |-> -1, r |-> r]
     ELSE [ok |-> TRUE, frame |-> r.access_history_[i].frame,
           r |-> [r EXCEPT !.evictable_map_ = @ \ {r.access_history_[i].frame},
                           !.access_history_ = Erase(@, i)]]

\* LRUKReplacer::RecordAccess
RecordAccess(r, frame_id) ==
  LET k     == r.k_
      known == frame_id \in r.evictable_map_ \cup r.non_evictable_map_
      h0    == IF known THEN r.access_history_
               ELSE InsertAt(r.access_history_, FindFull(r.access_history_, k),
                             [frame |-> frame_id, rec |-> [j \in 1..k |-> 0]])
      nev   == IF known THEN r.non_evictable_map_ ELSE r.non_evictable_map_ \cup {frame_id}
      i     == FindFrameIn(h0, {frame_id})
      ts    == r.current_timestamp_ + 1
      rec   == [j \in 1..k |-> IF j = 1 THEN ts ELSE h0[i].rec[j - 1]]
      e     == [frame |-> frame_id, rec |-> rec]
      rest  == Erase(h0, i)
      h1    == IF rec[k] # 0
               THEN InsertAt(rest, AfterNewPos(rest, i, k, rec[k]), e)
               ELSE [h0 EXCEPT ![i] = e]
  IN [r EXCEPT !.access_history_ = h1, !.non_evictable_map_ = nev,
               !.current_timestamp_ = ts]

\* LRUKReplacer::SetEvictable
SetEvictable(r, frame_id, set_evictable) ==
  IF set_evictable /\ frame_id \notin r.evictable_map_ /\ frame_id \in r.non_evictable_map_
  THEN [r EXCEPT !.evictable_map_ = @ \cup {frame_id}, !.non_evictable_map_ = @ \ {frame_id}]
  ELSE IF ~set_evictable /\ frame_id \in r.evictable_map_ /\ frame_id \notin r.non_evictable_map_
  THEN [r EXCEPT !.non_evictable_map_ = @ \cup {frame_id}, !.evictable_map_ = @ \ {frame_id}]
  ELSE r

\* LRUKReplacer::Remove: [fault, r]; fault is UNREACHABLE(...)
Remove(r, frame_id) ==
  IF frame_id \in r.non_evictable_map_ THEN [fault |-> TRUE, r |-> r]
  ELSE IF frame_id \notin r.evictable_map_ THEN [fault |-> FALSE, r |-> r]
  ELSE [fault |-> FALSE,
        r |-> [r EXCEPT !.access_history_ = Erase(@, FindFrameIn(@, {frame_id})),
                        !.evictable_map_ = @ \ {frame_id}]]

\* LRUKReplacer::Size
Size(r) == Cardinality(r.evictable_map_)

\* ====================================== Part 3: BufferPoolManagerInstance
PoolSize == 2       \* pool_size_
ReplacerK == 2      \* replacer_k
MaxPages == 3       \* page ids AllocatePage() hands out: 0..MaxPages-1
MaxData == 1        \* page contents: 0 (a zeroed page) .. MaxData
MaxBpCalls == 7     \* pool calls made in one run

INVALID_PAGE_ID == -1
PoolFrames == 0..(PoolSize - 1)
\* the page ids callers pass
PageIds == INVALID_PAGE_ID..(MaxPages - 1)
Data == 0..MaxData

\* Page::ResetMemory and the metadata ResetPageWithFrameId sets
ResetPage == [page_id_ |-> INVALID_PAGE_ID, pin_count_ |-> 0, is_dirty_ |-> FALSE, data_ |-> 0]

\* the page directory: ExtendibleHashTable<page_id_t, frame_id_t> as the
\* function it stores
PageTableFind(pt, page_id) == page_id \in DOMAIN pt
PageTableInsert(pt, page_id, frame_id) ==
  [x \in (DOMAIN pt) \cup {page_id} |-> IF x = page_id THEN frame_id ELSE pt[x]]
PageTableRemove(pt, page_id) == [x \in (DOMAIN pt) \ {page_id} |-> pt[x]]

\* DiskManager::WritePage
WritePage(d, page_id, data) == [d EXCEPT ![page_id] = data]

\* the outcome of a call: "page" (a Page pointer), "none" (nullptr), "true",
\* "false", "void", "fault" (an exception that is not caught); n: the number
\* of calls made
BpCall(op, page_id, ret) == [ret |-> ret, n |-> bplast.n + 1]

\* GetFrame that resets a dirty victim without writing it to disk
GetFrame_NoWriteBack ==
  IF free_list_ # <<>>
  THEN [ok |-> TRUE, frame |-> Head(free_list_), free |-> Tail(free_list_),
        pages |-> pages_, pt |-> page_table_, r |-> replacer_, d |-> disk]
  ELSE LET ev  == Evict(replacer_)
           old == pages_[ev.frame]
       IN IF ~ev.ok
          THEN [ok |-> FALSE, frame |-> -1, free |-> free_list_,
                pages |-> pages_, pt |-> page_table_, r |-> replacer_, d |-> disk]
          ELSE [ok |-> TRUE, frame |-> ev.frame, free |-> free_list_,
                pages |-> [pages_ EXCEPT ![ev.frame] = ResetPage],
                pt |-> PageTableRemove(page_table_, old.page_id_),
                r |-> ev.r,
                d |-> disk]

\* GetFrame that asks the replacer only and never looks at the free list
GetFrame_ReplacerOnly ==
  LET ev  == Evict(replacer_)
      old == pages_[ev.frame]
  IN IF ~ev.ok
     THEN [ok |-> FALSE, frame |-> -1, free |-> free_list_,
           pages |-> pages_, pt |-> page_table_, r |-> replacer_, d |-> disk]
     ELSE [ok |-> TRUE, frame |-> ev.frame, free |-> free_list_,
           pages |-> [pages_ EXCEPT ![ev.frame] = ResetPage],
           pt |-> PageTableRemove(page_table_, old.page_id_),
           r |-> ev.r,
           d |-> IF old.is_dirty_ THEN WritePage(disk, old.page_id_, old.data_) ELSE disk]

\* The replacement frame of NewPgImp (lines 44-65) and FetchPgImp (lines
\* 88-107): the front of the free list, else the replacer's victim, written
\* back when dirty, dropped from the page directory and reset.
GetFrame ==
  IF free_list_ # <<>>
  THEN [ok |-> TRUE, frame |-> Head(free_list_), free |-> Tail(free_list_),
        pages |-> pages_, pt |-> page_table_, r |-> replacer_, d |-> disk]
  ELSE LET ev  == Evict(replacer_)
           old == pages_[ev.frame]
       IN IF ~ev.ok
          THEN [ok |-> FALSE, frame |-> -1, free |-> free_list_,
                pages |-> pages_, pt |-> page_table_, r |-> replacer_, d |-> disk]
          ELSE [ok |-> TRUE, frame |-> ev.frame, free |-> free_list_,
                pages |-> [pages_ EXCEPT ![ev.frame] = ResetPage],
                pt |-> PageTableRemove(page_table_, old.page_id_),
                r |-> ev.r,
                d |-> IF old.is_dirty_ THEN WritePage(disk, old.page_id_, old.data_) ELSE disk]

BpRunning == bplast.ret # "fault" /\ bplast.n < MaxBpCalls

\* history: frame frame_id is handed to page page_id
Reused(h, frame_id, page_id) ==
  [q \in PageIds |-> IF q # page_id /\ h[q].frame = frame_id
                     THEN [h[q] EXCEPT !.reused = TRUE]
                     ELSE h[q]]

NewPgImp ==
  /\ BpRunning
  /\ next_page_id_ < MaxPages
  /\ LET g == GetFrame
         page_id == next_page_id_
     IN IF ~g.ok
        THEN /\ bplast' = BpCall("NewPg", INVALID_PAGE_ID, "none")
             /\ UNCHANGED <<pages_, page_table_, free_list_, next_page_id_, replacer_, disk,
                            pagehist>>
        ELSE /\ next_page_id_' = next_page_id_ + 1
             /\ page_table_' = PageTableInsert(g.pt, page_id, g.frame)
             /\ replacer_' = SetEvictable(RecordAccess(g.r, g.frame), g.frame, FALSE)
             /\ pages_' = [g.pages EXCEPT ![g.frame].page_id_ = page_id,
                                          ![g.frame].pin_count_ = @ + 1]
             /\ free_list_' = g.free
             /\ disk' = g.d
             /\ bplast' = BpCall("NewPg", page_id, "page")
             /\ pagehist' = Reused(pagehist, g.frame, page_id)
  /\ UNCHANGED notbp

FetchPgImp(page_id) ==
  /\ BpRunning
  /\ IF PageTableFind(page_table_, page_id)
     THEN LET frame_id == page_table_[page_id]
          IN /\ replacer_' = SetEvictable(RecordAccess(replacer_, frame_id), frame_id, FALSE)
             /\ pages_' = [pages_ EXCEPT ![frame_id].pin_count_ = @ + 1]
             /\ bplast' = BpCall("FetchPg", page_id, "page")
             /\ UNCHANGED <<page_table_, free_list_, disk, pagehist>>
     ELSE LET g == GetFrame
          IN IF ~g.ok
             THEN /\ bplast' = BpCall("FetchPg", page_id, "none")
                  /\ UNCHANGED <<pages_, page_table_, free_list_, replacer_, disk, pagehist>>
             ELSE /\ page_table_' = PageTableInsert(g.pt, page_id, g.frame)
                  /\ replacer_' = SetEvictable(RecordAccess(g.r, g.frame), g.frame, FALSE)
                  \* ReadPage(page_id, GetData())
                  /\ pages_' = [g.pages EXCEPT ![g.frame].page_id_ = page_id,
                                               ![g.frame].data_ = g.d[page_id],
                                               ![g.frame].pin_count_ = @ + 1]
                  /\ free_list_' = g.free
                  /\ disk' = g.d
                  /\ bplast' = BpCall("FetchPg", page_id, "page")
                  /\ pagehist' = [Reused(pagehist, g.frame, page_id) EXCEPT
                                    ![page_id].unallocated =
                                       @ \/ page_id >= next_page_id_ \/ page_id = INVALID_PAGE_ID]
  /\ UNCHANGED next_page_id_
  /\ UNCHANGED notbp

\* UnpinPgImp(page_id, is_dirty).  A caller that passes is_dirty has written
\* the contents v through the Page pointer it holds while the page was pinned.
UnpinPgImp(page_id, is_dirty, v) ==
  /\ BpRunning
  /\ IF ~PageTableFind(page_table_, page_id)
     THEN /\ bplast' = BpCall("UnpinPg", page_id, "true")
          /\ UNCHANGED <<pages_, replacer_, pagehist>>
     ELSE LET frame_id == page_table_[page_id]
          IN IF pages_[frame_id].pin_count_ = 0
             THEN /\ bplast' = BpCall("UnpinPg", page_id, "false")
                  /\ UNCHANGED <<pages_, replacer_, pagehist>>
             ELSE /\ pages_' = [pages_ EXCEPT
                                  ![frame_id].pin_count_ = @ - 1,
                                  ![frame_id].is_dirty_ = IF is_dirty THEN TRUE ELSE @,
                                  ![frame_id].data_ = IF is_dirty THEN v ELSE @]
                  /\ replacer_' = IF pages_[frame_id].pin_count_ = 1
                                  THEN SetEvictable(replacer_, frame_id, TRUE)
                                  ELSE replacer_
                  /\ pagehist' = IF is_dirty
                                 THEN [pagehist EXCEPT ![page_id].data = {v},
                                                       ![page_id].frame = frame_id,
                                                       ![page_id].reused = FALSE,
                                                       ![page_id].deleted = FALSE]
                                 ELSE pagehist
                  /\ bplast' = BpCall("UnpinPg", page_id, "true")
  /\ UNCHANGED <<page_table_, free_list_, next_page_id_, disk>>
  /\ UNCHANGED notbp

FlushPgImp(page_id) ==
  /\ BpRunning
  /\ IF page_id = INVALID_PAGE_ID \/ ~PageTableFind(page_table_, page_id)
     THEN /\ bplast' = BpCall("FlushPg", page_id, "false")
          /\ UNCHANGED <<pages_, disk>>
     ELSE LET frame_id == page_table_[page_id]
          IN /\ disk' = WritePage(disk, page_id, pages_[frame_id].data_)
             /\ pages_' = [pages_ EXCEPT ![frame_id].is_dirty_ = FALSE]
             /\ bplast' = BpCall("FlushPg", page_id, "true")
  /\ UNCHANGED <<page_table_, free_list_, next_page_id_, replacer_, pagehist>>
  /\ UNCHANGED notbp

\* FlushAllPgsImp: frames in index order; a later frame's write of the same
\* page id overwrites an earlier one's
RECURSIVE FlushFrames(_, _)
FlushFrames(d, i) ==
  IF i >= PoolSize THEN d
  ELSE FlushFrames(IF pages_[i].page_id_ = INVALID_PAGE_ID THEN d
                   ELSE WritePage(d, pages_[i].page_id_, pages_[i].data_), i + 1)
FlushAllPgsImp ==
  /\ BpRunning
  /\ disk' = FlushFrames(disk, 0)
  /\ pages_' = [f \in PoolFrames |->
                  IF pages_[f].page_id_ = INVALID_PAGE_ID THEN pages_[f]
                  ELSE [pages_[f] EXCEPT !.is_dirty_ = FALSE]]
  /\ bplast' = BpCall("FlushAllPgs", INVALID_PAGE_ID, "void")
  /\ UNCHANGED <<page_table_, free_list_, next_page_id_, replacer_, pagehist>>
  /\ UNCHANGED notbp

DeletePgImp(page_id) ==
  /\ BpRunning
  /\ IF ~PageTableFind(page_table_, page_id)
     THEN /\ bplast' = BpCall("DeletePg", page_id, "true")
          /\ UNCHANGED <<pages_, page_table_, free_list_, replacer_, pagehist>>
     ELSE LET frame_id == page_table_[page_id]
              rm == Remove(replacer_, frame_id)
          IN IF pages_[frame_id].pin_count_ # 0
             THEN /\ bplast' = BpCall("DeletePg", page_id, "false")
                  /\ UNCHANGED <<pages_, page_table_, free_list_, replacer_, pagehist>>
             ELSE IF rm.fault
             THEN /\ bplast' = BpCall("DeletePg", page_id, "fault")
                  /\ page_table_' = PageTableRemove(page_table_, page_id)
                  /\ UNCHANGED <<pages_, free_list_, replacer_, pagehist>>
             ELSE /\ page_table_' = PageTableRemove(page_table_, page_id)
                  /\ replacer_' = rm.r
                  /\ free_list_' = Append(free_list_, frame_id)
                  /\ pages_' = [pages_ EXCEPT ![frame_id] = ResetPage]
                  /\ pagehist' = [pagehist EXCEPT ![page_id].deleted = TRUE]
                  /\ bplast' = BpCall("DeletePg", page_id, "true")
  /\ UNCHANGED <<next_page_id_, disk>>
  /\ UNCHANGED notbp

\* the state the constructor leaves (lines 20-32)
BPNext ==
  \/ NewPgImp
  \/ \E p \in PageIds : FetchPgImp(p)
  \/ \E p \in PageIds : UnpinPgImp(p, FALSE, 0)
  \/ \E p \in PageIds, v \in 1..MaxData : UnpinPgImp(p, TRUE, v)
  \/ \E p \in PageIds : FlushPgImp(p)
  \/ FlushAllPgsImp
  \/ \E p \in PageIds : DeletePgImp(p)

\* ============================== Part 4: a LRUKReplacer driven by its calls
MaxAccesses == 5    \* record_access calls in one run

\* The most recent call and its outcome, with the history the claims are stated over:
\* acc[f]: the timestamps of the accesses recorded for f since the replacer last began
\*         to track it (kept after f is evicted or removed, until f is accessed again);
\* evs:    the frames evict returned since the last record_access or remove.
LruCall(op, frame_id, ret, acc, evs) ==
  [op |-> op, frame |-> frame_id, ret |-> ret, acc |-> acc, evs |-> evs]
LruRunning == lrulast.ret # "fault"

LruTracked == lru.evictable_map_ \cup lru.non_evictable_map_

LruRecordAccess(f) ==
  /\ LruRunning
  /\ lru.current_timestamp_ < MaxAccesses
  /\ lru' = RecordAccess(lru, f)
  /\ lrulast' = LruCall("RecordAccess", f, "void",
                        [lrulast.acc EXCEPT ![f] = IF f \in LruTracked
                                                   THEN Append(@, lru'.current_timestamp_)
                                                   ELSE <<lru'.current_timestamp_>>],
                        <<>>)
  /\ UNCHANGED notlru

LruSetEvictable(f, set_evictable) ==
  /\ LruRunning
  /\ lru' = SetEvictable(lru, f, set_evictable)
  /\ lrulast' = LruCall("SetEvictable", f, "void", lrulast.acc, lrulast.evs)
  /\ UNCHANGED notlru

LruRemove(f) ==
  /\ LruRunning
  /\ LET rm == Remove(lru, f)
     IN /\ lru' = rm.r
        /\ lrulast' = LruCall("Remove", f, IF rm.fault THEN "fault" ELSE "void",
                              lrulast.acc,
                              IF rm.r = lru THEN lrulast.evs ELSE <<>>)
  /\ UNCHANGED notlru

LruEvict ==
  /\ LruRunning
  /\ LET ev == Evict(lru)
     IN /\ lru' = ev.r
        /\ lrulast' = LruCall("Evict", ev.frame, IF ev.ok THEN "true" ELSE "false",
                              lrulast.acc,
                              IF ev.ok THEN Append(lrulast.evs, ev.frame) ELSE lrulast.evs)
  /\ UNCHANGED notlru

LRUNoCall == LruCall("-", -1, "void", [f \in Frames |-> <<>>], <<>>)

LRUNext ==
  \/ \E f \in Frames : LruRecordAccess(f)
  \/ \E f \in Frames, b \in BOOLEAN : LruSetEvictable(f, b)
  \/ \E f \in Frames : LruRemove(f)
  \/ LruEvict

\* ============================== Part 5: ExtendibleHashTable<int, int>
BucketSize == 2     \* bucket_size
MaxKey == 5         \* keys 0..MaxKey
MaxValue == 2       \* values 1..MaxValue
MaxHtCalls == 7     \* table calls made in one run

HashKeys == 0..MaxKey
HashValues == 1..MaxValue

RECURSIVE Pow2(_)
Pow2(n) == IF n = 0 THEN 1 ELSE 2 * Pow2(n - 1)

\* std::hash<int>: the value itself
Hash(key) == key

\* ExtendibleHashTable(bucket_size): one bucket of depth 0.  dir_[i + 1] is the
\* directory slot i; it holds the position in `buckets` of the bucket it points at.
ExtendibleHashTable ==
  [global_depth_ |-> 0, num_buckets_ |-> 1, dir_ |-> <<1>>,
   buckets |-> <<[depth_ |-> 0, list_ |-> <<>>]>>]

\* IndexOf: hash(key) & ((1 << global_depth_) - 1)
IndexOf(h, key) == Hash(key) % Pow2(h.global_depth_)

\* Bucket::Find(key): the position of key in list_, 0 for list_.end()
BucketFind(b, key) ==
  IF \E i \in 1..Len(b.list_) : b.list_[i][1] = key
  THEN CHOOSE i \in 1..Len(b.list_) :
         b.list_[i][1] = key /\ \A j \in 1..(i - 1) : b.list_[j][1] # key
  ELSE 0

\* Bucket::Insert: [ok, b]
BucketInsert(b, key, value) ==
  LET i == BucketFind(b, key)
  IN IF i = 0
     THEN IF Len(b.list_) >= BucketSize
          THEN [ok |-> FALSE, b |-> b]
          ELSE [ok |-> TRUE, b |-> [b EXCEPT !.list_ = Append(@, <<key, value>>)]]
     ELSE [ok |-> TRUE, b |-> [b EXCEPT !.list_[i] = <<key, value>>]]

\* Bucket::Remove: [ok, b]
BucketRemove(b, key) ==
  LET i == BucketFind(b, key)
  IN IF i = 0 THEN [ok |-> FALSE, b |-> b]
     ELSE [ok |-> TRUE,
           b |-> [b EXCEPT !.list_ = [j \in 1..(Len(@) - 1) |-> IF j < i THEN @[j] ELSE @[j + 1]]]]

\* new_bucket->Insert of the items, in order
RECURSIVE InsertItems(_, _)
InsertItems(b, items) ==
  IF items = <<>> THEN b
  ELSE InsertItems(BucketInsert(b, items[1][1], items[1][2]).b, Tail(items))

\* SplitBucket that leaves every item in the old bucket
SplitBucket_NoRedistribute(h, index) ==
  LET b     == h.dir_[index + 1]
      h1    == IF h.buckets[b].depth_ = h.global_depth_
               THEN [h EXCEPT !.global_depth_ = @ + 1, !.dir_ = @ \o @]
               ELSE h
      depth == h.buckets[b].depth_ + 1
      nb    == Len(h.buckets) + 1
      mask  == Pow2(depth)
  IN [h1 EXCEPT
        !.num_buckets_ = @ + 1,
        !.dir_ = [i \in 1..Len(h1.dir_) |->
                    IF (index % mask) = ((i - 1) % mask) THEN nb ELSE h1.dir_[i]],
        !.buckets = Append([@ EXCEPT ![b].depth_ = depth],
                           [depth_ |-> depth, list_ |-> <<>>])]

\* one turn of the loop of InsertInternal (lines 101-135): the bucket of `index`
\* could not take the key
SplitBucket(h, index) ==
  LET b     == h.dir_[index + 1]
      \* lines 104-111: double the directory
      h1    == IF h.buckets[b].depth_ = h.global_depth_
               THEN [h EXCEPT !.global_depth_ = @ + 1, !.dir_ = @ \o @]
               ELSE h
      depth == h.buckets[b].depth_ + 1
      nb    == Len(h.buckets) + 1
      mask  == Pow2(depth)
      items == h.buckets[b].list_
      Moves(it) == (index % mask) = (IndexOf(h1, it[1]) % mask)
      Stays(it) == ~Moves(it)
  IN [h1 EXCEPT
        !.num_buckets_ = @ + 1,
        !.dir_ = [i \in 1..Len(h1.dir_) |->
                    IF (index % mask) = ((i - 1) % mask) THEN nb ELSE h1.dir_[i]],
        !.buckets = Append([@ EXCEPT ![b] = [depth_ |-> depth,
                                             list_ |-> SelectSeq(items, Stays)]],
                           InsertItems([depth_ |-> depth, list_ |-> <<>>],
                                       SelectSeq(items, Moves)))]

RECURSIVE InsertInternal(_, _, _)
InsertInternal(h, key, value) ==
  LET index == IndexOf(h, key)
      b     == h.dir_[index + 1]
      res   == BucketInsert(h.buckets[b], key, value)
  IN IF res.ok
     THEN [h EXCEPT !.buckets[b] = res.b]
     ELSE InsertInternal(SplitBucket(h, index), key, value)

\* FindInternal: [ok, value]
FindInternal(h, key) ==
  LET b == h.buckets[h.dir_[IndexOf(h, key) + 1]]
      i == BucketFind(b, key)
  IN IF i = 0 THEN [ok |-> FALSE, value |-> 0] ELSE [ok |-> TRUE, value |-> b.list_[i][2]]

\* RemoveInternal that lowers the local depth of a bucket it emptied
RemoveInternal_ShrinksBucket(h, key) ==
  LET b   == h.dir_[IndexOf(h, key) + 1]
      res == BucketRemove(h.buckets[b], key)
      d   == IF res.ok /\ res.b.list_ = <<>> /\ res.b.depth_ > 0
             THEN res.b.depth_ - 1 ELSE res.b.depth_
  IN [ok |-> res.ok, h |-> [h EXCEPT !.buckets[b] = [res.b EXCEPT !.depth_ = d]]]

\* RemoveInternal: [ok, h]
RemoveInternal(h, key) ==
  LET b   == h.dir_[IndexOf(h, key) + 1]
      res == BucketRemove(h.buckets[b], key)
  IN [ok |-> res.ok, h |-> [h EXCEPT !.buckets[b] = res.b]]

HtCall(ret, value, m) == [ret |-> ret, value |-> value, n |-> htlast.n + 1, m |-> m]
HtRunning == htlast.n < MaxHtCalls

HtInsert(key, value) ==
  /\ HtRunning
  /\ ht' = InsertInternal(ht, key, value)
  /\ htlast' = HtCall("void", 0, [htlast.m EXCEPT ![key] = value])
  /\ UNCHANGED notht

HtRemove(key) ==
  /\ HtRunning
  /\ LET res == RemoveInternal(ht, key)
     IN /\ ht' = res.h
        /\ htlast' = HtCall(IF res.ok THEN "true" ELSE "false", 0, [htlast.m EXCEPT ![key] = 0])
  /\ UNCHANGED notht

HtFind(key) ==
  /\ HtRunning
  /\ LET res == FindInternal(ht, key)
     IN htlast' = HtCall(IF res.ok THEN "true" ELSE "false", res.value, htlast.m)
  /\ UNCHANGED ht
  /\ UNCHANGED notht

HTNext ==
  \/ \E key \in HashKeys, value \in HashValues : HtInsert(key, value)
  \/ \E key \in HashKeys : HtRemove(key)
  \/ \E key \in HashKeys : HtFind(key)

\* ------------------------------------------------------ Part 6: BPlusTree
\* b_plus_tree.cpp with its leaf and internal pages, run by one thread at a time.
\* Keys are integers (GenericKey compared as a signed integer), values stand for RIDs.

NegBtKeys == 1
MinBtKey == 0 - NegBtKeys
MaxBtKey == 3
MaxBtValue == 2
MaxBtCalls == 5
MaxLeafSize == 3
MaxInternalSize == 3
MaxAscending == 10
MaxAscLeafSize == 5
MaxAscInternalSize == 5

BtKeys == MinBtKey..MaxBtKey
BtValues == 1..MaxBtValue
\* every key some call may pass
AllBtKeys == BtKeys \cup (1..MaxAscending)
LeafSizes == 2..MaxLeafSize
InternalSizes == 3..MaxInternalSize

\* The buffer pool hands out zeroed pages (NewPgImp, DeletePgImp): a key slot the
\* tree never writes reads as the all-zero key, which compares as the integer 0.
ZeroKey == 0
\* page ids start after the header page; 0 stands for the nullptr entry that
\* LockRootPageId puts in a transaction's page set, and for "no leaf"
NoPage == 0

\* B_PLUS_TREE_LEAF_PAGE_TYPE::Init / B_PLUS_TREE_INTERNAL_PAGE_TYPE::Init
\* (size is the length of array_; an entry is <<key, value>> or <<key, child>>)
LeafInit(parent_id, max_size) ==
  [page_type_ |-> "LEAF_PAGE", parent_page_id_ |-> parent_id,
   next_page_id_ |-> INVALID_PAGE_ID, max_size_ |-> max_size, array_ |-> <<>>]

InternalInit(parent_id, max_size) ==
  [page_type_ |-> "INTERNAL_PAGE", parent_page_id_ |-> parent_id,
   next_page_id_ |-> INVALID_PAGE_ID, max_size_ |-> max_size, array_ |-> <<>>]

\* a page after DeletePage: its frame was reset and nothing of it is on disk
DeletedPage ==
  [page_type_ |-> "INVALID_INDEX_PAGE", parent_page_id_ |-> 0,
   next_page_id_ |-> 0, max_size_ |-> 0, array_ |-> <<>>]

\* BPlusTreePage accessors
GetSize(page) == Len(page.array_)
GetMinSize(page) == (page.max_size_ + 1) \div 2
IsLeafPage(page) == page.page_type_ = "LEAF_PAGE"
IsInternalPage(page) == page.page_type_ = "INTERNAL_PAGE"
IsRootPage(page) == page.parent_page_id_ = INVALID_PAGE_ID
KeyAt(page, index) == page.array_[index + 1][1]
ValueAt(page, index) == page.array_[index + 1][2]

\* the first index in from..(size - 1) whose entry satisfies Test, else size
FirstIndex(page, from, Test(_)) ==
  LET hits == {i \in from..(GetSize(page) - 1) : Test(page.array_[i + 1])}
  IN IF hits = {} THEN GetSize(page) ELSE CHOOSE i \in hits : \A j \in hits : i <= j

\* ---- b_plus_tree_leaf_page.cpp
LeafFind(page, key) ==
  LET Same(e) == e[1] = key
      i == FirstIndex(page, 0, Same)
  IN IF i = GetSize(page) THEN [ok |-> FALSE, value |-> 0]
     ELSE [ok |-> TRUE, value |-> ValueAt(page, i)]

LeafInsert(page, key, value) ==
  LET Greater(e) == e[1] > key
      i == FirstIndex(page, 0, Greater)
  IN IF LeafFind(page, key).ok THEN [ok |-> FALSE, page |-> page]
     ELSE [ok |-> TRUE, page |-> [page EXCEPT !.array_ = InsertAt(@, i + 1, <<key, value>>)]]

LeafRemove(page, key) ==
  LET Same(e) == e[1] = key
      i == FirstIndex(page, 0, Same)
  IN IF i = GetSize(page) THEN [ok |-> FALSE, page |-> page]
     ELSE [ok |-> TRUE, page |-> [page EXCEPT !.array_ = Erase(@, i + 1)]]

LeafFindIndex(page, key) ==
  LET Same(e) == e[1] = key
  IN FirstIndex(page, 0, Same)

\* ---- b_plus_tree_internal_page.cpp
InternalFindChild(page, key) ==
  LET Greater(e) == e[1] > key
  IN ValueAt(page, FirstIndex(page, 1, Greater) - 1)

InternalInsertToRight(page, key, value) ==
  LET Greater(e) == e[1] > key
      i == FirstIndex(page, 1, Greater)
  IN [page EXCEPT !.array_ = InsertAt(@, i + 1, <<key, value>>)]

\* the scan starts at slot 0, whose key is not a separator
InternalRemove(page, key) ==
  LET Same(e) == e[1] = key
      i == FirstIndex(page, 0, Same)
  IN IF i = GetSize(page) THEN [ok |-> FALSE, page |-> page]
     ELSE [ok |-> TRUE, page |-> [page EXCEPT !.array_ = Erase(@, i + 1)]]

InternalFindIndex(page, key) ==
  LET Same(e) == e[1] = key
  IN FirstIndex(page, 1, Same)

\* ---- b_plus_tree.cpp
\* pages[p] is the page with id p; deleted_page_set is the transaction's set of
\* pages to delete when it releases its page set; fault: the call read a page
\* that is no tree page, or dereferenced the end of its page set
BPlusTree(leaf_max_size, internal_max_size) ==
  [root_page_id_ |-> INVALID_PAGE_ID, leaf_max_size_ |-> leaf_max_size,
   internal_max_size_ |-> internal_max_size, pages |-> <<>>,
   deleted_page_set |-> {}, fault |-> FALSE]

IsEmpty(t) == t.root_page_id_ = INVALID_PAGE_ID

IsTreePage(t, page_id) ==
  /\ page_id \in 1..Len(t.pages)
  /\ t.pages[page_id].page_type_ # "INVALID_INDEX_PAGE"

\* buffer_pool_manager_->NewPage: the next page id, a zeroed page
NewPageId(t) == Len(t.pages) + 1
AddPage(t, page) == [t EXCEPT !.pages = Append(@, page)]
Fault(t) == [t EXCEPT !.fault = TRUE]

\* IsSafe that takes every page for safe
IsSafe_Always(page, op) == TRUE

IsSafe(page, op) ==
  IF op = "INSERT" THEN GetSize(page) < page.max_size_
  ELSE GetSize(page) > GetMinSize(page)

IsExclusive(op) == op # "FIND"

\* the page set after latching page_id: a reader, and a writer at a safe page,
\* release what they hold first
CrabbingProtocolFetchPage(t, page_id, op, page_set) ==
  IF ~IsExclusive(op) \/ IsSafe(t.pages[page_id], op)
  THEN <<page_id>> ELSE Append(page_set, page_id)

RECURSIVE Descend(_, _, _, _, _, _)
Descend(t, current, key, op, find_min, page_set) ==
  IF ~IsTreePage(t, current)
  THEN [leaf |-> NoPage, page_set |-> page_set, fault |-> TRUE]
  ELSE LET page == t.pages[current]
           held == CrabbingProtocolFetchPage(t, current, op, page_set)
       IN IF IsLeafPage(page)
          THEN [leaf |-> current, page_set |-> held, fault |-> FALSE]
          ELSE Descend(t, IF find_min THEN ValueAt(page, 0)
                                      ELSE InternalFindChild(page, key),
                       key, op, find_min, held)

FindLeafPage(t, key, op, find_min) ==
  IF IsEmpty(t) THEN [leaf |-> NoPage, page_set |-> <<NoPage>>, fault |-> FALSE]
  ELSE Descend(t, t.root_page_id_, key, op, find_min, <<NoPage>>)

\* SplitPage moving min size entries and keeping the rest
SplitPage_KeepMost(t, old_id, new_id) ==
  LET old_page == t.pages[old_id]
      max_size == IF IsLeafPage(old_page) THEN t.leaf_max_size_
                  ELSE t.internal_max_size_
      move_size == GetMinSize(old_page)
      rest_size == max_size + 1 - move_size
      moved == SubSeq(old_page.array_, rest_size + 1, rest_size + move_size)
      kept == SubSeq(old_page.array_, 1, rest_size)
  IN IF IsLeafPage(old_page)
     THEN [t EXCEPT !.pages[new_id].next_page_id_ = old_page.next_page_id_,
                    !.pages[new_id].array_ = moved,
                    !.pages[old_id].next_page_id_ = new_id,
                    !.pages[old_id].array_ = kept]
     ELSE [t EXCEPT !.pages[new_id].array_ = moved,
                    !.pages[old_id].array_ = kept]

SplitPage(t, old_id, new_id) ==
  LET old_page == t.pages[old_id]
      max_size == IF IsLeafPage(old_page) THEN t.leaf_max_size_
                  ELSE t.internal_max_size_
      rest_size == GetMinSize(old_page)
      move_size == max_size + 1 - rest_size
      moved == SubSeq(old_page.array_, rest_size + 1, rest_size + move_size)
      kept == SubSeq(old_page.array_, 1, rest_size)
  IN IF IsLeafPage(old_page)
     THEN [t EXCEPT !.pages[new_id].next_page_id_ = old_page.next_page_id_,
                    !.pages[new_id].array_ = moved,
                    !.pages[old_id].next_page_id_ = new_id,
                    !.pages[old_id].array_ = kept]
     ELSE [t EXCEPT !.pages[new_id].array_ = moved,
                    !.pages[old_id].array_ = kept]

\* page_set ends with old_id and new_id; GetParentAndReleaseChildren pops both
RECURSIVE InsertInParent(_, _, _, _, _)
InsertInParent(t, old_id, middle_key, new_id, page_set) ==
  IF IsRootPage(t.pages[old_id])
  THEN LET root_id == NewPageId(t)
           root == [InternalInit(INVALID_PAGE_ID, t.internal_max_size_)
                      EXCEPT !.array_ = <<<<ZeroKey, old_id>>, <<middle_key, new_id>>>>]
       IN [AddPage(t, root) EXCEPT !.root_page_id_ = root_id,
                                   !.pages[old_id].parent_page_id_ = root_id,
                                   !.pages[new_id].parent_page_id_ = root_id]
  ELSE LET rest == SubSeq(page_set, 1, Len(page_set) - 2)
       IN IF Len(rest) = 0 \/ ~IsTreePage(t, rest[Len(rest)]) THEN Fault(t)
          ELSE LET parent_id == rest[Len(rest)]
                   parent_page == InternalInsertToRight(t.pages[parent_id], middle_key, new_id)
                   t1 == [t EXCEPT !.pages[parent_id] = parent_page]
               IN IF GetSize(parent_page) = t.internal_max_size_ + 1
                  THEN LET page_id == NewPageId(t1)
                           t2 == AddPage(t1, InternalInit(parent_page.parent_page_id_,
                                                          t.internal_max_size_))
                           t3 == SplitPage(t2, parent_id, page_id)
                       IN InsertInParent(t3, parent_id, KeyAt(t3.pages[page_id], 0),
                                         page_id, Append(rest, page_id))
                  ELSE t1

\* ReleasePagesInTransaction: the pages of the deleted page set are deleted
ReleasePagesInTransaction(t) ==
  [t EXCEPT !.pages = [p \in 1..Len(t.pages) |->
                         IF p \in t.deleted_page_set THEN DeletedPage ELSE t.pages[p]],
            !.deleted_page_set = {}]

\* Insert once FindLeafPage has returned leaf (NoPage: the tree is empty) with
\* the pages of page_set write-latched
InsertAtLeaf(t, leaf, held, key, value) ==
  LET empty == leaf = NoPage
      leaf_id == IF empty THEN NewPageId(t) ELSE leaf
      t1 == IF empty
            THEN [AddPage(t, LeafInit(INVALID_PAGE_ID, t.leaf_max_size_))
                    EXCEPT !.root_page_id_ = leaf_id]
            ELSE t
      page_set == IF empty THEN Append(held, leaf_id) ELSE held
      result == LeafInsert(t1.pages[leaf_id], key, value)
      t2 == [t1 EXCEPT !.pages[leaf_id] = result.page]
      page_id == NewPageId(t2)
      t3 == AddPage(t2, LeafInit(result.page.parent_page_id_, t.leaf_max_size_))
      t4 == SplitPage(t3, leaf_id, page_id)
  IN IF ~result.ok THEN [t |-> t1, ret |-> "false"]
     ELSE IF GetSize(result.page) = t.leaf_max_size_ + 1
     THEN LET t5 == InsertInParent(t4, leaf_id, KeyAt(t4.pages[page_id], 0), page_id,
                                   Append(page_set, page_id))
          IN [t |-> ReleasePagesInTransaction(t5),
              ret |-> IF t5.fault THEN "fault" ELSE "true"]
     ELSE [t |-> t2, ret |-> "true"]

BPlusTreeInsert(t, key, value) ==
  LET found == FindLeafPage(t, key, "INSERT", FALSE)
  IN IF found.fault THEN [t |-> Fault(t), ret |-> "fault"]
     ELSE InsertAtLeaf(t, found.leaf, found.page_set, key, value)

RemoveKey(page, key) ==
  IF IsLeafPage(page) THEN LeafRemove(page, key) ELSE InternalRemove(page, key)

GetBrother(parent, page_id) ==
  LET Is(e) == e[2] = page_id
      i == FirstIndex(parent, 0, Is)
      is_last == i = GetSize(parent) - 1
  IN [fault |-> i = GetSize(parent) \/ GetSize(parent) < 2,
      brother_is_right |-> ~is_last,
      brother_page_id |-> IF GetSize(parent) < 2 \/ i = GetSize(parent) THEN NoPage
                          ELSE IF is_last THEN ValueAt(parent, i - 1)
                          ELSE ValueAt(parent, i + 1),
      middle_key |-> IF GetSize(parent) < 2 \/ i = GetSize(parent) THEN ZeroKey
                     ELSE IF is_last THEN KeyAt(parent, i) ELSE KeyAt(parent, i + 1)]

MergeRightToLeft(t, left_id, right_id, middle_key) ==
  LET left == t.pages[left_id]
      right == t.pages[right_id]
  IN IF IsLeafPage(left)
     THEN [t EXCEPT !.pages[left_id].array_ = left.array_ \o right.array_,
                    !.pages[left_id].next_page_id_ = right.next_page_id_,
                    !.deleted_page_set = @ \cup {right_id}]
     ELSE [t EXCEPT !.pages[left_id].array_ =
                       left.array_ \o [right.array_ EXCEPT ![1][1] = middle_key],
                    !.deleted_page_set = @ \cup {right_id}]

SetKey(page, index, key) ==
  IF index + 1 \in 1..GetSize(page) THEN [page EXCEPT !.array_[index + 1][1] = key]
  ELSE page

BorrowFromBrother(t, parent_id, page_id, brother_id, brother_is_right, middle_key) ==
  LET page == t.pages[page_id]
      brother == t.pages[brother_id]
      taken == IF brother_is_right THEN brother.array_[1]
               ELSE brother.array_[GetSize(brother)]
      brother1 == [brother EXCEPT !.array_ =
                     IF brother_is_right THEN Tail(@) ELSE SubSeq(@, 1, Len(@) - 1)]
      page1 == [page EXCEPT !.array_ =
                  IF brother_is_right THEN Append(@, taken) ELSE <<taken>> \o @]
      page2 == IF IsLeafPage(page) THEN page1
               ELSE IF brother_is_right THEN SetKey(page1, GetSize(page1) - 1, middle_key)
               ELSE SetKey(page1, 1, middle_key)
      key == IF brother_is_right THEN KeyAt(brother1, 0) ELSE KeyAt(page2, 0)
      parent == t.pages[parent_id]
  IN [t EXCEPT !.pages[page_id] = page2,
               !.pages[brother_id] = brother1,
               !.pages[parent_id] = SetKey(parent, InternalFindIndex(parent, middle_key), key)]

\* The steps of Remove(b_plus_page, key, transaction, riter). riter is the
\* position in page_set of the page's parent (the reverse iterator of the
\* source); brothers are pushed at the back of the page set and leave the
\* positions before them as they are.
NoBrother ==
  [brother |-> NoPage, parent |-> NoPage, page |-> NoPage, brother_is_right |-> FALSE,
   middle_key |-> ZeroKey, riter |-> 0]

\* up to GetBrother's FetchPage: the key is removed from the page; need names the
\* brother to latch when the page is left too small
RemoveAt(t, page_id, key, page_set, riter) ==
  LET removed == RemoveKey(t.pages[page_id], key)
      page == removed.page
      t1 == [t EXCEPT !.pages[page_id] = page]
      done(tree) == [t |-> tree, need |-> NoBrother]
  IN IF ~removed.ok THEN done(IF IsLeafPage(page) THEN t ELSE Fault(t))
     ELSE IF IsRootPage(page)
     THEN IF IsLeafPage(page) /\ GetSize(page) = 0
          THEN done([t1 EXCEPT !.root_page_id_ = INVALID_PAGE_ID,
                               !.deleted_page_set = @ \cup {page_id}])
          ELSE IF IsInternalPage(page) /\ GetSize(page) = 1
          THEN IF ~IsTreePage(t1, ValueAt(page, 0)) THEN done(Fault(t1))
               ELSE done([t1 EXCEPT
                            !.root_page_id_ = ValueAt(page, 0),
                            !.pages[ValueAt(page, 0)].parent_page_id_ = INVALID_PAGE_ID,
                            !.deleted_page_set = @ \cup {page_id}])
          ELSE done(t1)
     ELSE IF GetSize(page) < GetMinSize(page)
     THEN IF riter < 1 \/ ~IsTreePage(t1, page_set[riter]) THEN done(Fault(t1))
          ELSE LET parent_id == page_set[riter]
                   b == GetBrother(t1.pages[parent_id], page_id)
               IN IF b.fault \/ ~IsTreePage(t1, b.brother_page_id) THEN done(Fault(t1))
                  ELSE [t |-> t1,
                        need |-> [brother |-> b.brother_page_id, parent |-> parent_id,
                                  page |-> page_id, brother_is_right |-> b.brother_is_right,
                                  middle_key |-> b.middle_key, riter |-> riter - 1]]
     ELSE done(t1)

\* with the brother latched: merge when both fit in one page, else borrow
Merges(t, need) ==
  GetSize(t.pages[need.page]) + GetSize(t.pages[need.brother])
    <= (IF IsLeafPage(t.pages[need.page]) THEN t.leaf_max_size_ ELSE t.internal_max_size_)

Rebalance(t, need) ==
  IF Merges(t, need)
  THEN MergeRightToLeft(t, IF need.brother_is_right THEN need.page ELSE need.brother,
                        IF need.brother_is_right THEN need.brother ELSE need.page,
                        need.middle_key)
  ELSE BorrowFromBrother(t, need.parent, need.page, need.brother, need.brother_is_right,
                         need.middle_key)

RECURSIVE RemoveFrom(_, _, _, _, _)
RemoveFrom(t, page_id, key, page_set, riter) ==
  LET at == RemoveAt(t, page_id, key, page_set, riter)
  IN IF at.need = NoBrother THEN at.t
     ELSE IF Merges(at.t, at.need)
     THEN RemoveFrom(Rebalance(at.t, at.need), at.need.parent, at.need.middle_key,
                     page_set, at.need.riter)
     ELSE Rebalance(at.t, at.need)

BPlusTreeRemove(t, key) ==
  LET found == FindLeafPage(t, key, "REMOVE", FALSE)
  IN IF found.fault THEN Fault(t)
     ELSE IF found.leaf = NoPage THEN t
     ELSE ReleasePagesInTransaction(
            RemoveFrom(t, found.leaf, key, found.page_set, Len(found.page_set) - 1))

GetValue(t, key) ==
  LET found == FindLeafPage(t, key, "FIND", FALSE)
  IN IF found.fault THEN [ret |-> "fault", value |-> 0]
     ELSE IF found.leaf = NoPage THEN [ret |-> "false", value |-> 0]
     ELSE LET r == LeafFind(t.pages[found.leaf], key)
          IN [ret |-> IF r.ok THEN "true" ELSE "false", value |-> r.value]

\* ---- the iterator: page_ (NoPage: the end iterator) and index_
IndexIterator(page, index) == [page_ |-> page, index_ |-> index]
End == IndexIterator(NoPage, 0)

Begin(t) ==
  LET found == FindLeafPage(t, ZeroKey, "FIND", TRUE)
  IN IF found.fault \/ found.leaf = NoPage THEN End
     ELSE IndexIterator(found.leaf, 0)

BeginAt(t, key) ==
  LET found == FindLeafPage(t, key, "FIND", FALSE)
      index == LeafFindIndex(t.pages[found.leaf], key)
  IN IF found.fault \/ found.leaf = NoPage THEN End
     ELSE IF index = GetSize(t.pages[found.leaf]) THEN End
     ELSE IndexIterator(found.leaf, index)

\* operator++
Advance(t, it) ==
  LET leaf == t.pages[it.page_]
  IN IF it.index_ + 1 = GetSize(leaf)
     THEN IF leaf.next_page_id_ # INVALID_PAGE_ID
          THEN IndexIterator(leaf.next_page_id_, 0) ELSE End
     ELSE IndexIterator(it.page_, it.index_ + 1)

\* ---- the calls on one index, one at a time
\* what get returns for every key (0: no value, -1: the call faulted)
GetMap(t) ==
  [key \in AllBtKeys |->
     LET r == GetValue(t, key)
     IN IF r.ret = "true" THEN r.value ELSE IF r.ret = "false" THEN 0 ELSE -1]

BtCall(op, key, ret, value, m, round, it) ==
  [op |-> op, key |-> key, ret |-> ret, value |-> value, n |-> btlast.n + 1,
   m |-> m, before |-> GetMap(bt), round |-> round, it |-> it]

BTNoCall ==
  [op |-> "-", key |-> 0, ret |-> "void", value |-> 0, n |-> 0,
   m |-> [key \in AllBtKeys |-> 0], before |-> [key \in AllBtKeys |-> 0],
   round |-> FALSE, it |-> End]

\* a live iterator keeps its leaf read-latched: the thread makes no other call
BtRunning == btlast.n < MaxBtCalls /\ ~bt.fault
BtNoIterator == btlast.it = End

BtInsertStep(key, value) ==
  /\ ~bt.fault
  /\ LET res == BPlusTreeInsert(bt, key, value)
     IN /\ bt' = res.t
        /\ btlast' = BtCall("Insert", key, res.ret, 0,
                            IF btlast.m[key] = 0 THEN [btlast.m EXCEPT ![key] = value]
                            ELSE btlast.m,
                            FALSE, End)
  /\ UNCHANGED notbt

BtInsert(key, value) ==
  /\ BtRunning
  /\ BtNoIterator
  /\ BtInsertStep(key, value)

BtRemove(key) ==
  /\ BtRunning
  /\ BtNoIterator
  /\ LET t == BPlusTreeRemove(bt, key)
     IN /\ bt' = t
        /\ btlast' = BtCall("Remove", key, IF t.fault THEN "fault" ELSE "void", 0,
                            [btlast.m EXCEPT ![key] = 0],
                            btlast.op = "Insert" /\ btlast.key = key /\ btlast.ret = "true",
                            End)
  /\ UNCHANGED notbt

BtGetValue(key) ==
  /\ BtRunning
  /\ BtNoIterator
  /\ LET r == GetValue(bt, key)
     IN btlast' = BtCall("GetValue", key, r.ret, r.value, btlast.m, FALSE, End)
  /\ UNCHANGED bt
  /\ UNCHANGED notbt

BtBegin ==
  /\ BtRunning
  /\ BtNoIterator
  /\ btlast' = BtCall("Begin", 0, "void", 0, btlast.m, FALSE, Begin(bt))
  /\ UNCHANGED bt
  /\ UNCHANGED notbt

BtBeginAt(key) ==
  /\ BtRunning
  /\ BtNoIterator
  /\ btlast' = BtCall("BeginAt", key, "void", 0, btlast.m, FALSE, BeginAt(bt, key))
  /\ UNCHANGED bt
  /\ UNCHANGED notbt

BtAdvance ==
  /\ BtRunning
  /\ ~BtNoIterator
  /\ btlast' = BtCall("Advance", 0, "void", 0, btlast.m, FALSE, Advance(bt, btlast.it))
  /\ UNCHANGED bt
  /\ UNCHANGED notbt

\* ~IndexIterator
BtDestroy ==
  /\ BtRunning
  /\ ~BtNoIterator
  /\ btlast' = BtCall("Destroy", 0, "void", 0, btlast.m, FALSE, End)
  /\ UNCHANGED bt
  /\ UNCHANGED notbt

BTNext ==
  \/ \E key \in BtKeys, value \in BtValues : BtInsert(key, value)
  \/ \E key \in BtKeys : BtRemove(key)
  \/ \E key \in BtKeys : BtGetValue(key)
  \/ BtBegin
  \/ \E key \in BtKeys : BtBeginAt(key)
  \/ BtAdvance
  \/ BtDestroy

\* keys 1, 2, 3, ... inserted in ascending order into an empty tree
BtInsertAscending ==
  /\ btlast.n < MaxAscending
  /\ BtInsertStep(btlast.n + 1, 1)

BTAscNext == BtInsertAscending

\* ---- the index under concurrent calls: every latch acquisition is a step
NumThreads == 2
MaxThreadCalls == 2
NegCcKeys == 1
MinCcKey == 0 - NegCcKeys
MaxCcKey == 2
MaxPrefill == 4
Threads == 1..NumThreads
CcKeys == MinCcKey..MaxCcKey

\* a thread: its call (op, key, value), where it is in it (pc), the latched pages
\* of its transaction's page set (NoPage: the root id latch), the page it is
\* about to latch (current), the brother a Remove needs, its deleted page set,
\* its iterator, the call's result (-1: the call faulted), and seen: the values
\* the key had (0: none) at the states since the call began
IdleThread ==
  [op |-> "-", key |-> 0, value |-> 0, pc |-> "idle", page_set |-> <<>>,
   current |-> NoPage, need |-> NoBrother, deleted_page_set |-> {},
   it |-> End, fetched |-> FALSE, ret |-> "void", result |-> 0, seen |-> {}, n |-> 0]

OpType(op) == IF op = "Insert" THEN "INSERT" ELSE IF op = "Remove" THEN "REMOVE" ELSE "FIND"
Exclusive(th) == IsExclusive(OpType(thr[th].op))
InPageSet(th, page) == \E i \in 1..Len(thr[th].page_set) : thr[th].page_set[i] = page

\* latches held: a writer's page set is write-latched, a reader's read-latched,
\* and a live iterator read-latches its leaf
HoldsW(th, page) == Exclusive(th) /\ InPageSet(th, page)
HoldsR(th, page) ==
  \/ ~Exclusive(th) /\ InPageSet(th, page)
  \/ page # NoPage /\ thr[th].it.page_ = page

CanLatch(th, page, exclusive) ==
  \A o \in Threads \ {th} :
    /\ ~HoldsW(o, page)
    /\ exclusive => ~HoldsR(o, page)

\* pages another thread has fetched and not unpinned
Pins(th, page) ==
  \/ HoldsW(th, page) \/ HoldsR(th, page)
  \/ /\ thr[th].current = page
     /\ \/ thr[th].pc \in {"FetchPage", "GetBrother"}
        \/ thr[th].pc = "Construct" /\ thr[th].fetched

\* Destroy that leaves the leaf latched and pinned
Destroy_KeepLatch(it) == it

\* IndexIterator::Destroy: the leaf is unlatched and unpinned
Destroy(it) == End

\* the map m the writes so far describe: a write takes effect with its leaf
\* latched, and every GetValue in progress has then seen the key's new value
Observe(T, m) ==
  [th \in Threads |->
     IF T[th].op = "GetValue" /\ T[th].pc # "idle"
     THEN [T[th] EXCEPT !.seen = @ \cup {m[T[th].key]}]
     ELSE T[th]]

Written(th, ok) ==
  IF thr[th].op = "Insert" /\ ok /\ btlast.m[thr[th].key] = 0
  THEN [btlast.m EXCEPT ![thr[th].key] = thr[th].value]
  ELSE IF thr[th].op = "Remove" /\ ok THEN [btlast.m EXCEPT ![thr[th].key] = 0]
  ELSE btlast.m

\* ReleaseFrom that unlatches the pages of the deleted page set without
\* deleting them
ReleaseFrom_KeepsDeleted(t, page_set, deleted, pinned) ==
  [t |-> t, page_set |-> <<>>, deleted |-> deleted, current |-> NoPage]

\* ReleasePagesInTransaction, page by page: a page of the deleted page set that
\* another thread pins keeps the thread in DeletePage with the pages after it
\* still latched
RECURSIVE ReleaseFrom(_, _, _, _)
ReleaseFrom(t, page_set, deleted, pinned) ==
  IF page_set = <<>> THEN [t |-> t, page_set |-> <<>>, deleted |-> deleted, current |-> NoPage]
  ELSE LET page == Head(page_set)
       IN IF page \in deleted
          THEN IF page \in pinned
               THEN [t |-> t, page_set |-> Tail(page_set), deleted |-> deleted,
                     current |-> page]
               ELSE ReleaseFrom([t EXCEPT !.pages[page] = DeletedPage], Tail(page_set),
                                deleted \ {page}, pinned)
          ELSE ReleaseFrom(t, Tail(page_set), deleted, pinned)

PinnedByOthers(th) == {page \in 1..Len(bt.pages) : \E o \in Threads \ {th} : Pins(o, page)}

\* the call of th ends (or spins in DeletePage): tree t, result ret / result
Finish(th, t, page_set, deleted, ret, result, it, m) ==
  LET rel == ReleaseFrom([t EXCEPT !.deleted_page_set = {}], page_set, deleted,
                         PinnedByOthers(th))
      me == [thr[th] EXCEPT !.pc = IF rel.current = NoPage THEN "idle" ELSE "DeletePage",
                            !.page_set = rel.page_set,
                            !.current = rel.current,
                            !.deleted_page_set = rel.deleted,
                            !.need = NoBrother,
                            !.fetched = FALSE,
                            !.it = it, !.ret = ret, !.result = result]
  IN /\ bt' = rel.t
     /\ btlast' = [btlast EXCEPT !.m = m]
     /\ thr' = [Observe(thr, m) EXCEPT ![th] = me]

CcRunning == ~bt.fault

\* a thread with no call in progress begins one; with a live iterator it only
\* advances or destroys the iterator
CcStart(th, op, key, value) ==
  /\ CcRunning
  /\ thr[th].pc = "idle"
  /\ thr[th].n < MaxThreadCalls
  /\ thr[th].it = End
  /\ thr' = [thr EXCEPT ![th] = [IdleThread EXCEPT !.op = op, !.key = key, !.value = value,
                                                   !.pc = "LockRootPageId",
                                                   !.seen = IF op = "GetValue"
                                                            THEN {btlast.m[key]} ELSE {},
                                                   !.n = thr[th].n + 1]]
  /\ UNCHANGED <<bt, btlast>>
  /\ UNCHANGED notcc

\* FindLeafPage: LockRootPageId, then the root page is the page to latch
CcLockRootPageId(th) ==
  /\ CcRunning
  /\ thr[th].pc = "LockRootPageId"
  /\ CanLatch(th, NoPage, Exclusive(th))
  /\ IF IsEmpty(bt)
     THEN IF thr[th].op = "Insert"
          THEN LET res == InsertAtLeaf(bt, NoPage, <<NoPage>>, thr[th].key, thr[th].value)
               IN Finish(th, res.t, <<>>, {}, res.ret, 0, End, Written(th, res.ret = "true"))
          ELSE Finish(th, bt, <<>>, {}, IF thr[th].op = "GetValue" THEN "false" ELSE "void",
                      0, End, btlast.m)
     ELSE /\ thr' = [thr EXCEPT ![th].pc = "FetchPage",
                                ![th].page_set = <<NoPage>>,
                                ![th].current = bt.root_page_id_]
          /\ UNCHANGED <<bt, btlast>>
  /\ UNCHANGED notcc

\* CrabbingProtocolFetchPage on the way down
CcFetchPage(th) ==
  /\ CcRunning
  /\ thr[th].pc = "FetchPage"
  /\ CanLatch(th, thr[th].current, Exclusive(th))
  /\ IF ~IsTreePage(bt, thr[th].current)
     THEN Finish(th, Fault(bt), <<>>, {}, "fault", -1, End, btlast.m)
     ELSE LET page == bt.pages[thr[th].current]
              held == CrabbingProtocolFetchPage(bt, thr[th].current, OpType(thr[th].op),
                                                thr[th].page_set)
          IN /\ UNCHANGED <<bt, btlast>>
             /\ IF IsLeafPage(page)
                THEN thr' = [thr EXCEPT ![th].pc = "AtLeaf", ![th].page_set = held]
                ELSE thr' = [thr EXCEPT
                               ![th].page_set = held,
                               ![th].current = IF thr[th].op = "Begin" THEN ValueAt(page, 0)
                                               ELSE InternalFindChild(page, thr[th].key)]
  /\ UNCHANGED notcc

\* with the leaf latched: the call's work on the leaf and what follows without
\* another latch
CcAtLeaf(th) ==
  /\ CcRunning
  /\ thr[th].pc = "AtLeaf"
  /\ LET me == thr[th]
         leaf == me.page_set[Len(me.page_set)]
     IN CASE me.op = "GetValue" ->
               LET r == LeafFind(bt.pages[leaf], me.key)
               IN Finish(th, bt, <<>>, {}, IF r.ok THEN "true" ELSE "false", r.value, End,
                         btlast.m)
          [] me.op = "Begin" ->
               Finish(th, bt, <<>>, {}, "void", 0, IndexIterator(leaf, 0), btlast.m)
          [] me.op = "Insert" ->
               LET res == InsertAtLeaf(bt, leaf, me.page_set, me.key, me.value)
               IN Finish(th, res.t, <<>>, {}, res.ret, IF res.ret = "fault" THEN -1 ELSE 0,
                         End, Written(th, res.ret = "true"))
          [] me.op = "Remove" ->
               LET at == RemoveAt(bt, leaf, me.key, me.page_set, Len(me.page_set) - 1)
                   m == Written(th, LeafFind(bt.pages[leaf], me.key).ok)
               IN IF at.need = NoBrother
                  THEN Finish(th, at.t, me.page_set, at.t.deleted_page_set,
                              IF at.t.fault THEN "fault" ELSE "void", 0, End, m)
                  ELSE /\ bt' = at.t
                       /\ btlast' = [btlast EXCEPT !.m = m]
                       /\ thr' = Observe([thr EXCEPT ![th].pc = "GetBrother",
                                                     ![th].need = at.need,
                                                     ![th].current = at.need.brother], m)
  /\ UNCHANGED notcc

\* GetBrother's WLatch, then the merge or the borrow, and Remove on the parent
CcGetBrother(th) ==
  /\ CcRunning
  /\ thr[th].pc = "GetBrother"
  /\ CanLatch(th, thr[th].current, TRUE)
  /\ LET me == thr[th]
         page_set == Append(me.page_set, me.need.brother)
         t0 == [bt EXCEPT !.deleted_page_set = me.deleted_page_set]
         t1 == Rebalance(t0, me.need)
         at == IF Merges(t0, me.need)
               THEN RemoveAt(t1, me.need.parent, me.need.middle_key, page_set, me.need.riter)
               ELSE [t |-> t1, need |-> NoBrother]
     IN IF at.need = NoBrother
        THEN Finish(th, at.t, page_set, at.t.deleted_page_set,
                    IF at.t.fault THEN "fault" ELSE "void", 0, End, btlast.m)
        ELSE /\ bt' = [at.t EXCEPT !.deleted_page_set = {}]
             /\ thr' = [thr EXCEPT ![th].page_set = page_set,
                                   ![th].need = at.need,
                                   ![th].current = at.need.brother,
                                   ![th].deleted_page_set = at.t.deleted_page_set]
             /\ UNCHANGED btlast
  /\ UNCHANGED notcc

\* while (!DeletePage(page_id)) {} ends once nobody else pins the page
CcDeletePage(th) ==
  /\ CcRunning
  /\ thr[th].pc = "DeletePage"
  /\ thr[th].current \notin PinnedByOthers(th)
  /\ Finish(th, [bt EXCEPT !.pages[thr[th].current] = DeletedPage], thr[th].page_set,
            thr[th].deleted_page_set \ {thr[th].current}, thr[th].ret, thr[th].result,
            thr[th].it, btlast.m)
  /\ UNCHANGED notcc

\* operator++: within the leaf, or Destroy and then Construct on the next leaf
CcAdvance(th) ==
  /\ CcRunning
  /\ thr[th].pc = "idle"
  /\ thr[th].it # End
  /\ thr[th].n < MaxThreadCalls
  /\ LET it == thr[th].it
         leaf == bt.pages[it.page_]
     IN IF it.index_ + 1 # GetSize(leaf)
        THEN thr' = [thr EXCEPT ![th].op = "Advance", ![th].n = @ + 1,
                                ![th].it = IndexIterator(it.page_, it.index_ + 1)]
        ELSE thr' = [thr EXCEPT ![th].op = "Advance", ![th].n = @ + 1,
                                ![th].it = Destroy(it),
                                ![th].fetched = FALSE,
                                ![th].current = IF leaf.next_page_id_ = INVALID_PAGE_ID
                                                THEN NoPage ELSE leaf.next_page_id_,
                                ![th].pc = IF leaf.next_page_id_ = INVALID_PAGE_ID
                                           THEN "idle" ELSE "Construct"]
  /\ UNCHANGED <<bt, btlast>>
  /\ UNCHANGED notcc

\* Construct: FetchPage pins the next leaf, or reads a page deleted meanwhile
CcConstructFetch(th) ==
  /\ CcRunning
  /\ thr[th].pc = "Construct"
  /\ ~thr[th].fetched
  /\ IF IsTreePage(bt, thr[th].current)
     THEN thr' = [thr EXCEPT ![th].fetched = TRUE]
     ELSE thr' = [thr EXCEPT ![th].pc = "idle", ![th].current = NoPage, ![th].ret = "fault"]
  /\ UNCHANGED <<bt, btlast>>
  /\ UNCHANGED notcc

\* Construct: RLatch
CcConstructLatch(th) ==
  /\ CcRunning
  /\ thr[th].pc = "Construct"
  /\ thr[th].fetched
  /\ CanLatch(th, thr[th].current, FALSE)
  /\ thr' = [thr EXCEPT ![th].pc = "idle", ![th].fetched = FALSE,
                        ![th].it = IndexIterator(thr[th].current, 0),
                        ![th].current = NoPage]
  /\ UNCHANGED <<bt, btlast>>
  /\ UNCHANGED notcc

\* ~IndexIterator
CcDestroy(th) ==
  /\ CcRunning
  /\ thr[th].pc = "idle"
  /\ thr[th].it # End
  /\ thr' = [thr EXCEPT ![th].op = "Destroy", ![th].it = Destroy(thr[th].it)]
  /\ UNCHANGED <<bt, btlast>>
  /\ UNCHANGED notcc

CCNext ==
  \E th \in Threads :
    \/ \E key \in CcKeys : CcStart(th, "GetValue", key, 0)
    \/ \E key \in CcKeys : CcStart(th, "Insert", key, 1)
    \/ \E key \in CcKeys : CcStart(th, "Remove", key, 0)
    \/ CcStart(th, "Begin", 0, 0)
    \/ CcLockRootPageId(th)
    \/ CcFetchPage(th)
    \/ CcAtLeaf(th)
    \/ CcGetBrother(th)
    \/ CcDeletePage(th)
    \/ CcAdvance(th)
    \/ CcConstructFetch(th)
    \/ CcConstructLatch(th)
    \/ CcDestroy(th)

\* the tree after Insert of the first n keys in ascending order, and its map
RECURSIVE InsertAscending(_, _)
InsertAscending(t, n) ==
  IF n = 0 THEN t
  ELSE BPlusTreeInsert(InsertAscending(t, n - 1), MinCcKey + n - 1, 1).t

PrefillMap(n) == [key \in AllBtKeys |-> IF key \in MinCcKey..(MinCcKey + n - 1) THEN 1 ELSE 0]

\* ------------------------------------------------------ the specifications
\* Each specification runs one component from its constructed state; the other
\* components stay as constructed.

\* an empty lock manager and new transactions of any isolation levels
LMInit ==
  /\ iso \in IsoChoices
  /\ state = [t \in Txns |-> "GROWING"]
  /\ tls = [t \in Txns |-> [m \in Modes |-> {}]]
  /\ rls = [t \in Txns |-> [m \in {"S", "X"} |-> {}]]
  /\ tmap = [o \in Oids |-> EmptyQueue]
  /\ rmap = [r \in Rids |-> EmptyQueue]
  /\ wait = [t \in Txns |-> NoWait]
  /\ woken = {}
  /\ last = Call("true", "-", "-")
  /\ ncalls = 0
  /\ crashed = FALSE
  \* the pool and the replacer, idle
  /\ pages_ = [f \in PoolFrames |-> ResetPage]
  /\ page_table_ = [x \in {} |-> 0]
  /\ free_list_ = [i \in 1..PoolSize |-> i - 1]
  /\ next_page_id_ = 0
  /\ replacer_ = LRUKReplacer(ReplacerK)
  /\ disk = [p \in PageIds |-> 0]
  /\ bplast = [ret |-> "void", n |-> 0]
  /\ pagehist = [p \in PageIds |-> [data |-> {}, frame |-> -1, reused |-> FALSE,
                                     deleted |-> FALSE, unallocated |-> FALSE]]
  /\ lru = LRUKReplacer(1)
  /\ lrulast = LRUNoCall
  /\ ht = ExtendibleHashTable
  /\ htlast = [ret |-> "void", value |-> 0, n |-> 0, m |-> [key \in HashKeys |-> 0]]
  /\ bt = BPlusTree(MaxLeafSize, MaxInternalSize)
  /\ btlast = BTNoCall
  /\ thr = [th \in Threads |-> IdleThread]

\* as LMInit, every transaction REPEATABLE_READ
LMAbortInit ==
  /\ iso = [t \in Txns |-> "REPEATABLE_READ"]
  /\ state = [t \in Txns |-> "GROWING"]
  /\ tls = [t \in Txns |-> [m \in Modes |-> {}]]
  /\ rls = [t \in Txns |-> [m \in {"S", "X"} |-> {}]]
  /\ tmap = [o \in Oids |-> EmptyQueue]
  /\ rmap = [r \in Rids |-> EmptyQueue]
  /\ wait = [t \in Txns |-> NoWait]
  /\ woken = {}
  /\ last = Call("true", "-", "-")
  /\ ncalls = 0
  /\ crashed = FALSE
  \* the pool and the replacer, idle
  /\ pages_ = [f \in PoolFrames |-> ResetPage]
  /\ page_table_ = [x \in {} |-> 0]
  /\ free_list_ = [i \in 1..PoolSize |-> i - 1]
  /\ next_page_id_ = 0
  /\ replacer_ = LRUKReplacer(ReplacerK)
  /\ disk = [p \in PageIds |-> 0]
  /\ bplast = [ret |-> "void", n |-> 0]
  /\ pagehist = [p \in PageIds |-> [data |-> {}, frame |-> -1, reused |-> FALSE,
                                     deleted |-> FALSE, unallocated |-> FALSE]]
  /\ lru = LRUKReplacer(1)
  /\ lrulast = LRUNoCall
  /\ ht = ExtendibleHashTable
  /\ htlast = [ret |-> "void", value |-> 0, n |-> 0, m |-> [key \in HashKeys |-> 0]]
  /\ bt = BPlusTree(MaxLeafSize, MaxInternalSize)
  /\ btlast = BTNoCall
  /\ thr = [th \in Threads |-> IdleThread]

\* BufferPoolManagerInstance(PoolSize, disk_manager, ReplacerK)
BPInit ==
  /\ pages_ = [f \in PoolFrames |-> ResetPage]
  /\ page_table_ = [x \in {} |-> 0]
  /\ free_list_ = [i \in 1..PoolSize |-> i - 1]
  /\ next_page_id_ = 0
  /\ replacer_ = LRUKReplacer(ReplacerK)
  /\ disk = [p \in PageIds |-> 0]
  /\ bplast = [ret |-> "void", n |-> 0]
  /\ pagehist = [p \in PageIds |-> [data |-> {}, frame |-> -1, reused |-> FALSE,
                                     deleted |-> FALSE, unallocated |-> FALSE]]
  \* the lock manager and the replacer, idle
  /\ iso = [t \in Txns |-> "REPEATABLE_READ"]
  /\ state = [t \in Txns |-> "GROWING"]
  /\ tls = [t \in Txns |-> [m \in Modes |-> {}]]
  /\ rls = [t \in Txns |-> [m \in {"S", "X"} |-> {}]]
  /\ tmap = [o \in Oids |-> EmptyQueue]
  /\ rmap = [r \in Rids |-> EmptyQueue]
  /\ wait = [t \in Txns |-> NoWait]
  /\ woken = {}
  /\ last = Call("true", "-", "-")
  /\ ncalls = 0
  /\ crashed = FALSE
  /\ lru = LRUKReplacer(1)
  /\ lrulast = LRUNoCall
  /\ ht = ExtendibleHashTable
  /\ htlast = [ret |-> "void", value |-> 0, n |-> 0, m |-> [key \in HashKeys |-> 0]]
  /\ bt = BPlusTree(MaxLeafSize, MaxInternalSize)
  /\ btlast = BTNoCall
  /\ thr = [th \in Threads |-> IdleThread]

\* LRUKReplacer(NumFrames, k) for any k
LRUInit ==
  /\ \E k \in 1..MaxK : lru = LRUKReplacer(k)
  /\ lrulast = LRUNoCall
  \* the lock manager and the pool, idle
  /\ iso = [t \in Txns |-> "REPEATABLE_READ"]
  /\ state = [t \in Txns |-> "GROWING"]
  /\ tls = [t \in Txns |-> [m \in Modes |-> {}]]
  /\ rls = [t \in Txns |-> [m \in {"S", "X"} |-> {}]]
  /\ tmap = [o \in Oids |-> EmptyQueue]
  /\ rmap = [r \in Rids |-> EmptyQueue]
  /\ wait = [t \in Txns |-> NoWait]
  /\ woken = {}
  /\ last = Call("true", "-", "-")
  /\ ncalls = 0
  /\ crashed = FALSE
  /\ pages_ = [f \in PoolFrames |-> ResetPage]
  /\ page_table_ = [x \in {} |-> 0]
  /\ free_list_ = [i \in 1..PoolSize |-> i - 1]
  /\ next_page_id_ = 0
  /\ replacer_ = LRUKReplacer(ReplacerK)
  /\ disk = [p \in PageIds |-> 0]
  /\ bplast = [ret |-> "void", n |-> 0]
  /\ pagehist = [p \in PageIds |-> [data |-> {}, frame |-> -1, reused |-> FALSE,
                                     deleted |-> FALSE, unallocated |-> FALSE]]
  /\ ht = ExtendibleHashTable
  /\ htlast = [ret |-> "void", value |-> 0, n |-> 0, m |-> [key \in HashKeys |-> 0]]
  /\ bt = BPlusTree(MaxLeafSize, MaxInternalSize)
  /\ btlast = BTNoCall
  /\ thr = [th \in Threads |-> IdleThread]

\* ExtendibleHashTable(BucketSize), empty
HTInit ==
  /\ ht = ExtendibleHashTable
  /\ htlast = [ret |-> "void", value |-> 0, n |-> 0, m |-> [key \in HashKeys |-> 0]]
  /\ bt = BPlusTree(MaxLeafSize, MaxInternalSize)
  /\ btlast = BTNoCall
  /\ thr = [th \in Threads |-> IdleThread]
  \* the lock manager, the pool and the replacer, idle
  /\ iso = [t \in Txns |-> "REPEATABLE_READ"]
  /\ state = [t \in Txns |-> "GROWING"]
  /\ tls = [t \in Txns |-> [m \in Modes |-> {}]]
  /\ rls = [t \in Txns |-> [m \in {"S", "X"} |-> {}]]
  /\ tmap = [o \in Oids |-> EmptyQueue]
  /\ rmap = [r \in Rids |-> EmptyQueue]
  /\ wait = [t \in Txns |-> NoWait]
  /\ woken = {}
  /\ last = Call("true", "-", "-")
  /\ ncalls = 0
  /\ crashed = FALSE
  /\ pages_ = [f \in PoolFrames |-> ResetPage]
  /\ page_table_ = [x \in {} |-> 0]
  /\ free_list_ = [i \in 1..PoolSize |-> i - 1]
  /\ next_page_id_ = 0
  /\ replacer_ = LRUKReplacer(ReplacerK)
  /\ disk = [p \in PageIds |-> 0]
  /\ bplast = [ret |-> "void", n |-> 0]
  /\ pagehist = [p \in PageIds |-> [data |-> {}, frame |-> -1, reused |-> FALSE,
                                     deleted |-> FALSE, unallocated |-> FALSE]]
  /\ lru = LRUKReplacer(1)
  /\ lrulast = LRUNoCall

\* an empty BPlusTree of any of the checked leaf and internal max sizes
BTInit ==
  /\ \E leaf_max_size \in LeafSizes, internal_max_size \in InternalSizes :
       bt = BPlusTree(leaf_max_size, internal_max_size)
  /\ btlast = BTNoCall
  /\ thr = [th \in Threads |-> IdleThread]
  /\ ht = ExtendibleHashTable
  /\ htlast = [ret |-> "void", value |-> 0, n |-> 0, m |-> [key \in HashKeys |-> 0]]
  \* the other components, idle
  /\ iso = [t \in Txns |-> "REPEATABLE_READ"]
  /\ state = [t \in Txns |-> "GROWING"]
  /\ tls = [t \in Txns |-> [m \in Modes |-> {}]]
  /\ rls = [t \in Txns |-> [m \in {"S", "X"} |-> {}]]
  /\ tmap = [o \in Oids |-> EmptyQueue]
  /\ rmap = [r \in Rids |-> EmptyQueue]
  /\ wait = [t \in Txns |-> NoWait]
  /\ woken = {}
  /\ last = Call("true", "-", "-")
  /\ ncalls = 0
  /\ crashed = FALSE
  /\ pages_ = [f \in PoolFrames |-> ResetPage]
  /\ page_table_ = [x \in {} |-> 0]
  /\ free_list_ = [i \in 1..PoolSize |-> i - 1]
  /\ next_page_id_ = 0
  /\ replacer_ = LRUKReplacer(ReplacerK)
  /\ disk = [p \in PageIds |-> 0]
  /\ bplast = [ret |-> "void", n |-> 0]
  /\ pagehist = [p \in PageIds |-> [data |-> {}, frame |-> -1, reused |-> FALSE,
                                     deleted |-> FALSE, unallocated |-> FALSE]]
  /\ lru = LRUKReplacer(1)
  /\ lrulast = LRUNoCall

\* an empty BPlusTree for the ascending inserts
BTAscInit ==
  /\ \E leaf_max_size \in 2..MaxAscLeafSize, internal_max_size \in 3..MaxAscInternalSize :
       bt = BPlusTree(leaf_max_size, internal_max_size)
  /\ btlast = BTNoCall
  /\ thr = [th \in Threads |-> IdleThread]
  /\ ht = ExtendibleHashTable
  /\ htlast = [ret |-> "void", value |-> 0, n |-> 0, m |-> [key \in HashKeys |-> 0]]
  \* the other components, idle
  /\ iso = [t \in Txns |-> "REPEATABLE_READ"]
  /\ state = [t \in Txns |-> "GROWING"]
  /\ tls = [t \in Txns |-> [m \in Modes |-> {}]]
  /\ rls = [t \in Txns |-> [m \in {"S", "X"} |-> {}]]
  /\ tmap = [o \in Oids |-> EmptyQueue]
  /\ rmap = [r \in Rids |-> EmptyQueue]
  /\ wait = [t \in Txns |-> NoWait]
  /\ woken = {}
  /\ last = Call("true", "-", "-")
  /\ ncalls = 0
  /\ crashed = FALSE
  /\ pages_ = [f \in PoolFrames |-> ResetPage]
  /\ page_table_ = [x \in {} |-> 0]
  /\ free_list_ = [i \in 1..PoolSize |-> i - 1]
  /\ next_page_id_ = 0
  /\ replacer_ = LRUKReplacer(ReplacerK)
  /\ disk = [p \in PageIds |-> 0]
  /\ bplast = [ret |-> "void", n |-> 0]
  /\ pagehist = [p \in PageIds |-> [data |-> {}, frame |-> -1, reused |-> FALSE,
                                     deleted |-> FALSE, unallocated |-> FALSE]]
  /\ lru = LRUKReplacer(1)
  /\ lrulast = LRUNoCall

\* a tree holding the keys 1..n, and every thread idle
CCInit ==
  /\ \E leaf_max_size \in LeafSizes, n \in 0..MaxPrefill :
       /\ bt = InsertAscending(BPlusTree(leaf_max_size, MaxInternalSize), n)
       /\ btlast = [BTNoCall EXCEPT !.m = PrefillMap(n)]
  /\ thr = [th \in Threads |-> IdleThread]
  /\ ht = ExtendibleHashTable
  /\ htlast = [ret |-> "void", value |-> 0, n |-> 0, m |-> [key \in HashKeys |-> 0]]
  \* the other components, idle
  /\ iso = [t \in Txns |-> "REPEATABLE_READ"]
  /\ state = [t \in Txns |-> "GROWING"]
  /\ tls = [t \in Txns |-> [m \in Modes |-> {}]]
  /\ rls = [t \in Txns |-> [m \in {"S", "X"} |-> {}]]
  /\ tmap = [o \in Oids |-> EmptyQueue]
  /\ rmap = [r \in Rids |-> EmptyQueue]
  /\ wait = [t \in Txns |-> NoWait]
  /\ woken = {}
  /\ last = Call("true", "-", "-")
  /\ ncalls = 0
  /\ crashed = FALSE
  /\ pages_ = [f \in PoolFrames |-> ResetPage]
  /\ page_table_ = [x \in {} |-> 0]
  /\ free_list_ = [i \in 1..PoolSize |-> i - 1]
  /\ next_page_id_ = 0
  /\ replacer_ = LRUKReplacer(ReplacerK)
  /\ disk = [p \in PageIds |-> 0]
  /\ bplast = [ret |-> "void", n |-> 0]
  /\ pagehist = [p \in PageIds |-> [data |-> {}, frame |-> -1, reused |-> FALSE,
                                     deleted |-> FALSE, unallocated |-> FALSE]]
  /\ lru = LRUKReplacer(1)
  /\ lrulast = LRUNoCall

\* an empty lock manager and three new transactions
UPInit ==
  /\ iso \in UpIsoChoices
  /\ state = [t \in UpTxns |-> "GROWING"]
  /\ tls = [t \in UpTxns |-> [m \in Modes |-> {}]]
  /\ rls = [t \in UpTxns |-> [m \in {"S", "X"} |-> {}]]
  /\ tmap = [o \in Oids |-> EmptyQueue]
  /\ rmap = [r \in Rids |-> EmptyQueue]
  /\ wait = [t \in UpTxns |-> NoWait]
  /\ woken = {}
  /\ last = Call("true", "-", "-")
  /\ ncalls = 0
  /\ crashed = FALSE
  \* the pool and the replacer, idle
  /\ pages_ = [f \in PoolFrames |-> ResetPage]
  /\ page_table_ = [x \in {} |-> 0]
  /\ free_list_ = [i \in 1..PoolSize |-> i - 1]
  /\ next_page_id_ = 0
  /\ replacer_ = LRUKReplacer(ReplacerK)
  /\ disk = [p \in PageIds |-> 0]
  /\ bplast = [ret |-> "void", n |-> 0]
  /\ pagehist = [p \in PageIds |-> [data |-> {}, frame |-> -1, reused |-> FALSE,
                                     deleted |-> FALSE, unallocated |-> FALSE]]
  /\ lru = LRUKReplacer(1)
  /\ lrulast = LRUNoCall
  /\ ht = ExtendibleHashTable
  /\ htlast = [ret |-> "void", value |-> 0, n |-> 0, m |-> [key \in HashKeys |-> 0]]
  /\ bt = BPlusTree(MaxLeafSize, MaxInternalSize)
  /\ btlast = BTNoCall
  /\ thr = [th \in Threads |-> IdleThread]

DLInit ==
  /\ iso = [t \in Txns |-> "REPEATABLE_READ"]
  /\ state = [t \in Txns |-> "GROWING"]
  /\ tls = [t \in Txns |-> [m \in Modes |-> {}]]
  /\ rls = [t \in Txns |-> [m \in {"S", "X"} |-> {}]]
  /\ tmap = [o \in Oids |-> EmptyQueue]
  /\ rmap = [r \in Rids |-> EmptyQueue]
  /\ wait = [t \in Txns |-> NoWait]
  /\ woken = {}
  /\ last = Call("true", "-", "-")
  /\ ncalls = 0
  /\ crashed = FALSE
  \* the pool and the replacer, idle
  /\ pages_ = [f \in PoolFrames |-> ResetPage]
  /\ page_table_ = [x \in {} |-> 0]
  /\ free_list_ = [i \in 1..PoolSize |-> i - 1]
  /\ next_page_id_ = 0
  /\ replacer_ = LRUKReplacer(ReplacerK)
  /\ disk = [p \in PageIds |-> 0]
  /\ bplast = [ret |-> "void", n |-> 0]
  /\ pagehist = [p \in PageIds |-> [data |-> {}, frame |-> -1, reused |-> FALSE,
                                     deleted |-> FALSE, unallocated |-> FALSE]]
  /\ lru = LRUKReplacer(1)
  /\ lrulast = LRUNoCall
  /\ ht = ExtendibleHashTable
  /\ htlast = [ret |-> "void", value |-> 0, n |-> 0, m |-> [key \in HashKeys |-> 0]]
  /\ bt = BPlusTree(MaxLeafSize, MaxInternalSize)
  /\ btlast = BTNoCall
  /\ thr = [th \in Threads |-> IdleThread]

LMSpec == LMInit /\ [][LMNext]_vars
LMAbortSpec == LMAbortInit /\ [][LMAbortNext]_vars
BPSpec == BPInit /\ [][BPNext]_vars
LRUSpec == LRUInit /\ [][LRUNext]_vars
HTSpec == HTInit /\ [][HTNext]_vars
BTSpec == BTInit /\ [][BTNext]_vars
BTAscSpec == BTAscInit /\ [][BTAscNext]_vars
CCSpec == CCInit /\ [][CCNext]_vars
UPSpec == UPInit /\ [][UPNext]_vars
\* A thread that was notified runs again, and the detector thread runs a round
\* every interval; no transaction is obliged to make another call.
DLFairSpec ==
  /\ DLInit /\ [][DLNext]_vars
  /\ \A t \in Txns : WF_vars(WakeUp(t))
  /\ WF_vars(RunCycleDetection)

\* ------------------------------------------------------------ the claims
AdmissionReasons == {"LOCK_SHARED_ON_READ_UNCOMMITTED", "LOCK_ON_SHRINKING"}
LockState == <<tls, rls, tmap, rmap>>

\* the modes transaction t holds on table o, by its lock sets
HeldModes(t, o) == {h \in Modes : o \in tls[t][h]}

\* the number of requests of transaction t with mode m in a request list
NumReq(q, t, m) == Cardinality({i \in 1..Len(q) : q[i].txn = t /\ q[i].mode = m})
\* the mode of the request of t that a step removed from a queue
RemovedModes(Q, Q2, t) == {m \in Modes : NumReq(Q2.q, t, m) < NumReq(Q.q, t, m)}

\* two granted requests of different transactions with incompatible modes
GrantedConflict(Q) ==
  \E i, j \in 1..Len(Q.q) :
    /\ i # j /\ Q.q[i].granted /\ Q.q[j].granted /\ Q.q[i].txn # Q.q[j].txn
    /\ ~CompatibleMatrix(Q.q[i].mode, Q.q[j].mode)

\* C1: in every reachable state no two distinct transactions both hold a
\* granted lock on the same table or row with incompatible modes.
C1_NoIncompatibleHolders ==
  /\ \A o \in Oids : ~GrantedConflict(tmap[o])
  /\ \A r \in Rids : ~GrantedConflict(rmap[r])

\* the transitions the lock manager is to treat as upgrades
PermittedUpgrade(h, m) ==
  \/ h = "IS" /\ m \in {"S", "IX", "SIX", "X"}
  \/ h = "S" /\ m \in {"X", "SIX"}
  \/ h = "IX" /\ m \in {"SIX", "X"}
  \/ h = "SIX" /\ m = "X"

\* another transaction holds a granted lock in Q that is incompatible with m
OtherHolderIncompatible(Q, t, m) ==
  \E i \in 1..Len(Q.q) :
    Q.q[i].granted /\ Q.q[i].txn # t /\ ~CompatibleMatrix(Q.q[i].mode, m)

\* C2: a permitted upgrade of t's lock on a table from h to m is not granted
\* while another transaction holds a granted lock on the table that is
\* incompatible with m: the call that finds such a holder does not take m.
C2_UpgradeWaitsForHolders ==
  [][\A t \in Txns, o \in Oids, h \in Modes, m \in Modes :
       ( /\ PermittedUpgrade(h, m)
         /\ HeldModes(t, o) = {h}
         /\ OtherHolderIncompatible(tmap[o], t, m)
         /\ LockTable(t, m, o) )
       => o \notin tls'[t][m]
    ]_lmvars

\* C3: t and u both hold S on table o and both call lock_table(X).  Once the
\* first upgrade (u's, from S, the call before this one) has been taken, the
\* second call is not granted: t is set ABORTED with UPGRADE_CONFLICT.
C3_UpgradeConflict ==
  [][\A t \in Txns, u \in Txns, o \in Oids :
       ( /\ t # u
         /\ last = Call("true", "granted", "S")
         /\ tmap[o].q = <<Req(t, "S", TRUE), Req(u, "X", TRUE)>>
         /\ \A o2 \in Oids \ {o} : tmap[o2].q = <<>>
         /\ \A r \in Rids : rmap[r].q = <<>>
         /\ LockTable(t, "X", o) )
       => ( /\ state'[t] = "ABORTED"
            /\ last' = Call("abort", "UPGRADE_CONFLICT", "-")
            /\ o \notin tls'[t]["X"] )
    ]_lmvars

\* the positions of Q2 whose request a step from Q to Q2 has granted
NumSame(q, r) == Cardinality({i \in 1..Len(q) : q[i] = r})
NewGrants(Q, Q2) ==
  {p \in 1..Len(Q2.q) :
     /\ Q2.q[p].granted
     /\ NumSame(Q2.q, Q2.q[p]) > NumSame(Q.q, Q2.q[p])
     /\ \A k \in (p + 1)..Len(Q2.q) : Q2.q[k] # Q2.q[p]}
EarlierGrantedAndCompatible(q, p) ==
  \A j \in 1..(p - 1) :
    /\ q[j].granted
    /\ q[j].txn # q[p].txn => CompatibleMatrix(q[j].mode, q[p].mode)

\* C4: a request is marked granted only in a state where every request
\* earlier in its queue is granted and (for another transaction's request)
\* has a mode compatible with the request's mode.
C4_GrantOnlyWhenGrantable ==
  [][/\ \A o \in Oids : \A p \in NewGrants(tmap[o], tmap'[o]) :
          EarlierGrantedAndCompatible(tmap'[o].q, p)
     /\ \A r \in Rids : \A p \in NewGrants(rmap[r], rmap'[r]) :
          EarlierGrantedAndCompatible(rmap'[r].q, p)
    ]_lmvars

\* the state the unlock of a lock of mode m is to leave transaction t in
C5_Expected(t, m) ==
  IF /\ state[t] = "GROWING"
     /\ \/ iso[t] = "REPEATABLE_READ" /\ m \in {"S", "X"}
        \/ iso[t] \in {"READ_COMMITTED", "READ_UNCOMMITTED"} /\ m = "X"
  THEN "SHRINKING" ELSE state[t]
\* C5: when a GROWING transaction successfully unlocks a table or row lock of
\* mode m it becomes SHRINKING if and only if (REPEATABLE_READ and m is S or X)
\* or (READ_COMMITTED or READ_UNCOMMITTED and m is X); unlocking IS, IX or SIX
\* changes no state and a transaction that is not GROWING keeps its state.
C5_UnlockTransition ==
  [][/\ \A t \in Txns, o \in Oids :
          (UnlockTable(t, o) /\ last'.ret = "true") =>
             /\ RemovedModes(tmap[o], tmap'[o], t) # {}
             /\ \A m \in RemovedModes(tmap[o], tmap'[o], t) : state'[t] = C5_Expected(t, m)
     /\ \A t \in Txns, r \in Rids :
          (UnlockRow(t, r) /\ last'.ret = "true") =>
             /\ RemovedModes(rmap[r], rmap'[r], t) # {}
             /\ \A m \in RemovedModes(rmap[r], rmap'[r], t) : state'[t] = C5_Expected(t, m)
    ]_lmvars
\* a READ_COMMITTED transaction has become SHRINKING by the unlock just made
C5_Witness ==
  /\ last = Call("true", "unlocked", "-")
  /\ \E t \in Txns : iso[t] = "READ_COMMITTED" /\ state[t] = "SHRINKING"

\* a lock call of a SHRINKING REPEATABLE_READ transaction and its rejection
C6_Shrinking(t) == iso[t] = "REPEATABLE_READ" /\ state[t] = "SHRINKING"
C6_Rejected(t, reason) ==
  /\ state'[t] = "ABORTED"
  /\ last' = Call("abort", reason, "-")
  /\ UNCHANGED LockState
\* C6 as claimed: under REPEATABLE_READ, once a transaction has unlocked an S
\* or X lock (it is SHRINKING from then on), every later lock_table or
\* lock_row call sets it ABORTED with LOCK_ON_SHRINKING and adds nothing to
\* any queue or lock set.
C6_NoLockAfterUnlock ==
  [][/\ \A t \in Txns, m \in Modes, o \in Oids :
          (C6_Shrinking(t) /\ LockTable(t, m, o)) => C6_Rejected(t, "LOCK_ON_SHRINKING")
     /\ \A t \in Txns, m \in Modes, r \in Rids, nd \in BOOLEAN :
          (C6_Shrinking(t) /\ LockRow(t, m, r, nd)) => C6_Rejected(t, "LOCK_ON_SHRINKING")
    ]_lmvars
\* C6 as amended: the reason is LOCK_ON_SHRINKING, except that lock_row with an
\* intention mode is rejected with ATTEMPTED_INTENTION_LOCK_ON_ROW.
C6_ShrinkingRejectsLocks ==
  [][/\ \A t \in Txns, m \in Modes, o \in Oids :
          (C6_Shrinking(t) /\ LockTable(t, m, o)) => C6_Rejected(t, "LOCK_ON_SHRINKING")
     /\ \A t \in Txns, m \in Modes, r \in Rids, nd \in BOOLEAN :
          (C6_Shrinking(t) /\ LockRow(t, m, r, nd)) =>
             C6_Rejected(t, IF m \in {"IS", "IX", "SIX"}
                            THEN "ATTEMPTED_INTENTION_LOCK_ON_ROW"
                            ELSE "LOCK_ON_SHRINKING")
    ]_lmvars
\* a REPEATABLE_READ transaction that gave up every lock has asked for a lock
\* again and was rejected
C6_Witness ==
  /\ last = Call("abort", "LOCK_ON_SHRINKING", "-")
  /\ \E t \in Txns :
       /\ iso[t] = "REPEATABLE_READ" /\ state[t] = "ABORTED"
       /\ \A m \in Modes : tls[t][m] = {}

\* the two admission conditions of a table request, on the state before the call
C7_SharedOnReadUncommitted(t, m) ==
  iso[t] = "READ_UNCOMMITTED" /\ m \in {"S", "IS", "SIX"}
C7_OnShrinking(t, m) ==
  /\ state[t] = "SHRINKING"
  /\ \/ m \in {"X", "IX"}
     \/ iso[t] = "REPEATABLE_READ"
     \/ iso[t] = "READ_COMMITTED" /\ m \notin {"IS", "S"}
\* C7: a table request is rejected with LOCK_SHARED_ON_READ_UNCOMMITTED exactly
\* when the isolation level is READ_UNCOMMITTED and the mode is S, IS or SIX;
\* with LOCK_ON_SHRINKING exactly when the state is SHRINKING and (the mode is
\* X or IX, or the level is REPEATABLE_READ, or it is READ_COMMITTED and the
\* mode is not IS or S); every rejection sets the transaction ABORTED.
C7_Admission ==
  [][\A t \in Txns, m \in Modes, o \in Oids :
       \* (a call with neither condition nor outcome satisfies the three
       \* conjuncts trivially and is left out before LockTable is evaluated)
       ( /\ \/ C7_SharedOnReadUncommitted(t, m) \/ C7_OnShrinking(t, m)
            \/ last'.reason \in AdmissionReasons
         /\ LockTable(t, m, o) )
       => /\ last'.reason = "LOCK_SHARED_ON_READ_UNCOMMITTED"
               <=> C7_SharedOnReadUncommitted(t, m)
          /\ last'.reason = "LOCK_ON_SHRINKING" <=> C7_OnShrinking(t, m)
          /\ last'.reason \in AdmissionReasons =>
               (last'.ret = "abort" /\ state'[t] = "ABORTED" /\ UNCHANGED LockState)
    ]_lmvars
\* a SHRINKING READ_COMMITTED transaction was rejected
C7_Witness ==
  /\ last = Call("abort", "LOCK_ON_SHRINKING", "-")
  /\ \E t \in Txns : iso[t] = "READ_COMMITTED" /\ state[t] = "ABORTED"

\* C8: lock_row(S) passes the hierarchy check whenever the transaction holds
\* any lock on the row's table, lock_row(X) exactly when it holds IX, SIX or
\* X; otherwise the transaction is set ABORTED with TABLE_LOCK_NOT_PRESENT and
\* no row request is enqueued.  (Calls that pass admission.)
C8_RowHierarchy ==
  [][\A t \in Txns, m \in {"S", "X"}, r \in Rids, nd \in BOOLEAN :
       (LockRow(t, m, r, nd) /\ last'.reason \notin AdmissionReasons) =>
         LET held == HeldModes(t, TableOf(r))
             ok   == IF m = "S" THEN held # {} ELSE held \cap {"IX", "SIX", "X"} # {}
         IN IF ok
            THEN /\ last'.reason # "TABLE_LOCK_NOT_PRESENT"
                 /\ ~(last'.ret = "fault" /\ state[t] # "ABORTED" /\ state'[t] = "ABORTED")
            ELSE /\ state'[t] = "ABORTED"
                 /\ last' = Call("abort", "TABLE_LOCK_NOT_PRESENT", "-")
                 /\ rmap' = rmap
    ]_lmvars

\* C9: a GROWING transaction that holds mode m on a table or row and requests
\* m on it again gets true, and the queues and the lock sets are unchanged.
C9_SameModeNoOp ==
  [][/\ \A t \in Txns, m \in Modes, o \in Oids :
          (state[t] = "GROWING" /\ o \in tls[t][m] /\ LockTable(t, m, o)) =>
             (last'.ret = "true" /\ UNCHANGED LockState)
     /\ \A t \in Txns, m \in {"S", "X"}, r \in Rids, nd \in BOOLEAN :
          (state[t] = "GROWING" /\ r \in rls[t][m] /\ LockRow(t, m, r, nd)) =>
             (last'.ret = "true" /\ UNCHANGED LockState)
    ]_lmvars

\* the rejection of a transition that is no upgrade
C10_Incompatible(t) ==
  /\ state'[t] = "ABORTED"
  /\ last' = Call("abort", "INCOMPATIBLE_UPGRADE", "-")
  /\ UNCHANGED LockState
\* C10: a transaction that holds h and requests another mode m (a call that
\* passes admission): a permitted transition replaces the held request;
\* every other one sets the transaction ABORTED with INCOMPATIBLE_UPGRADE and
\* adds no request.
C10_UpgradeClassification ==
  [][/\ \A t \in Txns, o \in Oids, h \in Modes, m \in Modes :
          ( /\ h # m /\ HeldModes(t, o) = {h}
            /\ LockTable(t, m, o) /\ last'.reason \notin AdmissionReasons ) =>
             IF PermittedUpgrade(h, m)
             THEN /\ last'.reason # "INCOMPATIBLE_UPGRADE"
                  /\ last'.ret \in {"true", "wait"} => (last'.from = h /\ o \notin tls'[t][h])
             ELSE C10_Incompatible(t)
     /\ \A t \in Txns, r \in Rids, nd \in BOOLEAN :
          ( /\ r \in rls[t]["X"] /\ r \notin rls[t]["S"]
            /\ LockRow(t, "S", r, nd) /\ last'.reason \notin AdmissionReasons ) =>
             C10_Incompatible(t)
    ]_lmvars

\* C11: unlock_table(t, o) sets t ABORTED with ATTEMPTED_UNLOCK_BUT_NO_LOCK_HELD
\* if and only if t holds no table lock of any mode on o; when t holds a lock
\* on o and no row lock of o the unlock succeeds.
C11_UnlockNoLockHeld ==
  [][\A t \in Txns, o \in Oids :
       UnlockTable(t, o) =>
         /\ last' = Call("abort", "ATTEMPTED_UNLOCK_BUT_NO_LOCK_HELD", "-")
              <=> HeldModes(t, o) = {}
         /\ last'.reason = "ATTEMPTED_UNLOCK_BUT_NO_LOCK_HELD" => state'[t] = "ABORTED"
         /\ ( /\ HeldModes(t, o) # {}
              /\ RowsOf(rls[t]["S"] \cup rls[t]["X"], o) = {} )
            => last'.ret = "true"
    ]_lmvars

\* the requests of t that are marked granted in a request list
GrantedOf(q, t) == {i \in 1..Len(q) : q[i].txn = t /\ q[i].granted}

\* C12: a transaction set ABORTED while its lock call waits is never granted
\* the lock: no step marks a request of it granted or adds to its lock sets.
C12_AbortedWaiterNotGranted ==
  [][\A t \in Txns :
       (state[t] = "ABORTED" /\ wait[t] # NoWait) =>
          /\ tls'[t] = tls[t] /\ rls'[t] = rls[t]
          /\ \A o \in Oids : Cardinality(GrantedOf(tmap'[o].q, t)) <= Cardinality(GrantedOf(tmap[o].q, t))
          /\ \A r \in Rids : Cardinality(GrantedOf(rmap'[r].q, t)) <= Cardinality(GrantedOf(rmap[r].q, t))
    ]_lmvars


(***************************************************************************)
(* Buffer pool claims (BPSpec)                                             *)
(***************************************************************************)
\* the frames the page directory maps some page id to
ResidentFrames == {page_table_[p] : p \in DOMAIN page_table_}

FreeFrames == {free_list_[i] : i \in DOMAIN free_list_}

\* page ids AllocatePage() has handed out so far
Allocated == 0..(next_page_id_ - 1)

\* C13: no two frames hold the same valid page id, and the page directory maps every
\* resident page id to exactly the one frame whose header carries that page id.
C13_OneFramePerPage ==
  /\ \A f, g \in PoolFrames :
       (f # g /\ pages_[f].page_id_ # INVALID_PAGE_ID) => pages_[f].page_id_ # pages_[g].page_id_
  /\ \A p \in DOMAIN page_table_ :
       p # INVALID_PAGE_ID =>
         /\ pages_[page_table_[p]].page_id_ = p
         /\ \A f \in PoolFrames : pages_[f].page_id_ = p => f = page_table_[p]

\* C14: the free list and the frames holding a resident page are disjoint and together
\* are the whole pool (free frames + resident frames = pool_size) after every call.
C14_FreeAndResidentPartition ==
  /\ FreeFrames \cap ResidentFrames = {}
  /\ FreeFrames \cup ResidentFrames = PoolFrames
  /\ Len(free_list_) + Cardinality(ResidentFrames) = PoolSize

\* C15: a frame with pin_count > 0 is never evicted, reassigned or reset: a frame whose
\* page id changes had pin_count 0, and if it held a page it was flagged evictable in
\* the replacer; the frames flagged evictable all have pin_count 0.
C15_PinnedNeverEvicted ==
  [][/\ \A f \in replacer_.evictable_map_ : pages_[f].pin_count_ = 0
     /\ \A f \in PoolFrames :
          pages_'[f].page_id_ # pages_[f].page_id_ =>
            /\ pages_[f].pin_count_ = 0
            /\ f \notin FreeFrames => f \in replacer_.evictable_map_
    ]_bpvars

\* three pages were allocated in a pool of two frames (one page was evicted) while a
\* frame was pinned
C15_Witness ==
  /\ next_page_id_ = PoolSize + 1
  /\ bplast.ret = "page"
  /\ \E f \in PoolFrames : pages_[f].pin_count_ > 0
  /\ \A q \in PageIds : ~pagehist[q].deleted /\ ~pagehist[q].unallocated

\* what a fetch of a page that is not resident hands back, against the contents last
\* unpinned with is_dirty
FetchReturnsWritten(p) ==
  (bplast'.ret = "page" /\ pagehist[p].data # {} /\ pagehist[p].reused) =>
     pages_'[page_table_'[p]].data_ \in pagehist[p].data

NoFrameAvailable == free_list_ = <<>> /\ \A f \in PoolFrames : pages_[f].pin_count_ > 0

PoolUnchanged == UNCHANGED <<pages_, page_table_, free_list_, next_page_id_, replacer_, disk>>

\* C17: new_page, and fetch_page of a page that is not resident, return none exactly
\* when the free list is empty and every frame has pin_count > 0, and then change
\* nothing.
C17_NoneIffAllPinned ==
  [][/\ NewPgImp =>
          /\ bplast'.ret = "none" <=> NoFrameAvailable
          /\ bplast'.ret = "none" => PoolUnchanged
     /\ \A p \in PageIds :
          (~PageTableFind(page_table_, p) /\ FetchPgImp(p)) =>
              /\ bplast'.ret = "none" <=> NoFrameAvailable
              /\ bplast'.ret = "none" => PoolUnchanged
    ]_bpvars

C17_Witness ==
  /\ bplast.ret = "none"
  /\ NoFrameAvailable
  /\ \A q \in PageIds : ~pagehist[q].unallocated

\* C18: fetch_page of a page id that was never allocated, or of INVALID_PAGE_ID,
\* returns none and makes no page resident.
C18_FetchUnallocated ==
  [][\A p \in PageIds :
       ((p = INVALID_PAGE_ID \/ p \notin Allocated) /\ FetchPgImp(p)) =>
          /\ bplast'.ret = "none"
          /\ page_table_' = page_table_
    ]_bpvars


(***************************************************************************)
(* Replacer claims (LRUSpec)                                               *)
(***************************************************************************)
\* the accesses recorded for frame f since the replacer began to track it
Accesses(f) == lrulast.acc[f]

\* fewer than K recorded accesses: backward K-distance +infinity
InfiniteDistance(f) == Len(Accesses(f)) < lru.k_

\* the timestamp of the K-th most recent access of f
KthRecent(f) == Accesses(f)[Len(Accesses(f)) - lru.k_ + 1]

MostRecent(f) == Accesses(f)[Len(Accesses(f))]

\* f has the largest backward K-distance among the frames of E
LargestKDistance(f, E) ==
  \/ InfiniteDistance(f)
  \/ \A g \in E : ~InfiniteDistance(g) /\ KthRecent(f) <= KthRecent(g)

\* C19: evict returns the evictable frame with the largest backward K-distance (a frame
\* with fewer than K accesses before every frame with K accesses, else the smallest
\* K-th most recent timestamp), and returns nothing only when no frame is evictable.
C19_EvictLargestKDistance ==
  [][LruEvict =>
       /\ lrulast'.ret = "false" <=> lru.evictable_map_ = {}
       /\ lrulast'.ret = "true" =>
            /\ lrulast'.frame \in lru.evictable_map_
            /\ LargestKDistance(lrulast'.frame, lru.evictable_map_)
            /\ lrulast'.frame \notin lru'.evictable_map_
    ]_lruvars

\* evict returned a frame while frames with fewer than K accesses and frames with K
\* accesses were evictable: both kinds are still there after it
C19_Witness ==
  /\ lrulast.op = "Evict" /\ lrulast.ret = "true"
  /\ lru.k_ > 1
  /\ \E f, g \in lru.evictable_map_ : InfiniteDistance(f) /\ ~InfiniteDistance(g)

\* C20: among several evictable frames with fewer than K accesses, evict returns the
\* one whose most recent access is the earliest, for every K.
C20_InfiniteTieBreak ==
  [][(LruEvict /\ lrulast'.ret = "true" /\ InfiniteDistance(lrulast'.frame)) =>
       \A g \in lru.evictable_map_ :
          InfiniteDistance(g) => MostRecent(lrulast'.frame) <= MostRecent(g)
    ]_lruvars


\* K = 2 and the accesses f0, f1, f2, f1, f0 at timestamps 1..5, every frame tracked
\* since its first access
AccessesOfC21 ==
  /\ lru.k_ = 2
  /\ lrulast.acc = [f \in Frames |-> CASE f = 0 -> <<1, 5>>
                                       [] f = 1 -> <<2, 4>>
                                       [] f = 2 -> <<3>>
                                       [] OTHER -> <<>>]

\* the evict call made after `evs` were evicted, with the frames of E evictable
EvictAfter(evs, E) ==
  /\ AccessesOfC21
  /\ lrulast.evs = evs
  /\ lru.evictable_map_ = E
  /\ LruEvict

\* C21 as stated: with K = 2 and f0, f1, f2 evictable, after the accesses f0, f1, f2,
\* f1, f0 three successive evict calls return f2, then f1, then f0.
C21_EvictOrder_f2_f1_f0 ==
  [][/\ EvictAfter(<<>>, {0, 1, 2}) => lrulast'.frame = 2
     /\ EvictAfter(<<2>>, {0, 1}) => lrulast'.frame = 1
     /\ EvictAfter(<<2, 1>>, {0}) => lrulast'.frame = 0
    ]_lruvars

\* C21: with K = 2 and f0, f1, f2 evictable, after the accesses f0, f1, f2, f1, f0
\* three successive evict calls return f2 (one access), then f0 (second most recent
\* access at timestamp 1), then f1 (second most recent access at timestamp 2).
C21_EvictOrder_f2_f0_f1 ==
  [][/\ EvictAfter(<<>>, {0, 1, 2}) => lrulast'.frame = 2
     /\ EvictAfter(<<2>>, {0, 1}) => lrulast'.frame = 0
     /\ EvictAfter(<<2, 0>>, {1}) => lrulast'.frame = 1
    ]_lruvars

C21_Witness ==
  /\ AccessesOfC21
  /\ lrulast.op = "Evict"
  /\ lrulast.evs = <<2, 0, 1>>


(***************************************************************************)
(* Hash table claims (HTSpec)                                              *)
(***************************************************************************)
\* the places <<bucket, position>> where key is stored
EntriesOf(h, key) ==
  {e \in (1..Len(h.buckets)) \X (1..BucketSize) :
     /\ e[2] <= Len(h.buckets[e[1]].list_)
     /\ h.buckets[e[1]].list_[e[2]][1] = key}

\* table h holds exactly the map m: an absent key is stored nowhere, a present key is
\* stored once, with its value, in the bucket its directory slot points at
HoldsMap(h, m) ==
  \A key \in HashKeys :
    IF m[key] = 0
    THEN EntriesOf(h, key) = {}
    ELSE /\ Cardinality(EntriesOf(h, key)) = 1
         /\ \A e \in EntriesOf(h, key) :
              /\ h.buckets[e[1]].list_[e[2]][2] = m[key]
              /\ e[1] = h.dir_[IndexOf(h, key) + 1]

\* C22: the table behaves as a finite map: find(k) returns the value of the most recent
\* insert(k, v) not followed by remove(k) and reports absence otherwise; an insert on an
\* existing key replaces its value without a second entry, and a split or a directory
\* doubling loses or duplicates no entry.
C22_FiniteMap ==
  [][/\ \A key \in HashKeys :
          HtFind(key) =>
            /\ htlast'.ret = "true" <=> htlast.m[key] # 0
            /\ htlast'.ret = "true" => htlast'.value = htlast.m[key]
     /\ \A key \in HashKeys :
          HtRemove(key) => (htlast'.ret = "true" <=> htlast.m[key] # 0)
     /\ HoldsMap(ht', htlast'.m)
    ]_htvars

\* a key is found after the directory doubled twice and buckets split
C22_Witness ==
  /\ htlast.ret = "true" /\ htlast.value # 0
  /\ ht.global_depth_ >= 2
  /\ ht.num_buckets_ >= 3
  /\ Cardinality({key \in HashKeys : htlast.m[key] # 0}) >= 3

\* ------------------------------------------------------------ B+-tree claims
\* the child page ids of an internal page
Children(page) == {page.array_[i][2] : i \in 1..GetSize(page)}

\* the pages, the leaves with their depths, and the stored keys below a page
\* (a child that is no tree page is listed and has no subtree)
RECURSIVE NodesUnder(_, _)
NodesUnder(t, id) ==
  IF ~IsTreePage(t, id) \/ IsLeafPage(t.pages[id]) THEN {id}
  ELSE {id} \cup UNION {NodesUnder(t, c) : c \in Children(t.pages[id])}

RECURSIVE LeafDepths(_, _, _)
LeafDepths(t, id, depth) ==
  IF ~IsTreePage(t, id) THEN {-1}
  ELSE IF IsLeafPage(t.pages[id]) THEN {depth}
  ELSE UNION {LeafDepths(t, c, depth + 1) : c \in Children(t.pages[id])}

RECURSIVE KeysUnder(_, _)
KeysUnder(t, id) ==
  IF ~IsTreePage(t, id) THEN {}
  ELSE IF IsLeafPage(t.pages[id])
  THEN {t.pages[id].array_[i][1] : i \in 1..GetSize(t.pages[id])}
  ELSE UNION {KeysUnder(t, c) : c \in Children(t.pages[id])}

TreeNodes(t) == IF IsEmpty(t) THEN {} ELSE NodesUnder(t, t.root_page_id_)
TreeLeaves(t) == {id \in TreeNodes(t) : IsTreePage(t, id) /\ IsLeafPage(t.pages[id])}
TreeKeys(t) == IF IsEmpty(t) THEN {} ELSE KeysUnder(t, t.root_page_id_)
Height(t) == IF IsEmpty(t) THEN {0} ELSE LeafDepths(t, t.root_page_id_, 1)

SameDepth(t) == Cardinality(Height(t)) = 1 /\ -1 \notin Height(t)

\* keys strictly increasing in a node (slot 0 of an internal node holds no key)
KeysIncreasing(page) ==
  \A i, j \in (IF IsLeafPage(page) THEN 1 ELSE 2)..GetSize(page) :
    i < j => page.array_[i][1] < page.array_[j][1]

SeparatorsBound(t, page) ==
  \A i \in 2..GetSize(page) :
    /\ \A k \in KeysUnder(t, page.array_[i - 1][2]) : k < page.array_[i][1]
    /\ \A k \in KeysUnder(t, page.array_[i][2]) : k >= page.array_[i][1]

CeilHalf(n) == (n + 1) \div 2

SizeInBounds(t, page) ==
  LET max_size == IF IsLeafPage(page) THEN t.leaf_max_size_ ELSE t.internal_max_size_
  IN CeilHalf(max_size) <= GetSize(page) /\ GetSize(page) <= max_size

ValidBPlusTree(t) ==
  /\ SameDepth(t)
  /\ \A id \in TreeNodes(t) :
       /\ IsTreePage(t, id)
       /\ KeysIncreasing(t.pages[id])
       /\ IsInternalPage(t.pages[id]) => SeparatorsBound(t, t.pages[id])
       /\ id # t.root_page_id_ => SizeInBounds(t, t.pages[id])

\* C23: insert(k, v) on an absent key returns true and get(k) then returns v;
\* insert on a present key returns false and leaves the stored value and the tree
\* as they were; after every call, get(k) returns a value exactly for the keys
\* inserted and not since removed (m is that map).
C23_InsertGetValue ==
  [][/\ \A key \in BtKeys : GetValue(bt', key).ret = "true" <=> btlast'.m[key] # 0
     /\ \A key \in BtKeys, value \in BtValues :
          (btlast.m[key] = 0 /\ BtInsert(key, value)) =>
             /\ btlast'.ret = "true"
             /\ GetValue(bt', key) = [ret |-> "true", value |-> value]
     /\ \A key \in BtKeys, value \in BtValues :
          (btlast.m[key] # 0 /\ BtInsert(key, value)) =>
             /\ btlast'.ret = "false"
             /\ bt' = bt
             /\ GetValue(bt', key) = [ret |-> "true", value |-> btlast.m[key]]
    ]_btvars

\* C24: after every completed insert or remove the tree is a valid B+-tree: all
\* leaves at the same depth, keys strictly increasing in every node, every
\* separator bounds the keys of the children beside it, and every node but the
\* root has ceil(max_size / 2) <= size <= max_size.
C24_ValidBPlusTree == ValidBPlusTree(bt)

\* the leaves met by following next_page_id_ from a leaf (NoPage: a page that is
\* no leaf was met, or more pages than exist)
RECURSIVE ChainFrom(_, _, _)
ChainFrom(t, id, fuel) ==
  IF id = INVALID_PAGE_ID THEN <<>>
  ELSE IF fuel = 0 \/ ~IsTreePage(t, id) \/ ~IsLeafPage(t.pages[id]) THEN <<NoPage>>
  ELSE <<id>> \o ChainFrom(t, t.pages[id].next_page_id_, fuel - 1)

LeafChain(t) ==
  IF IsEmpty(t) THEN <<>>
  ELSE LET found == FindLeafPage(t, ZeroKey, "FIND", TRUE)
       IN IF found.fault THEN <<NoPage>> ELSE ChainFrom(t, found.leaf, Len(t.pages))

\* the keys an iterator yields from it on, by operator++
RECURSIVE IterKeys(_, _, _)
IterKeys(t, it, fuel) ==
  IF it = End THEN <<>>
  ELSE IF fuel = 0 \/ ~IsTreePage(t, it.page_) \/ it.index_ >= GetSize(t.pages[it.page_])
  THEN <<"?">>
  ELSE <<KeyAt(t.pages[it.page_], it.index_)>> \o IterKeys(t, Advance(t, it), fuel - 1)

\* C25: after every completed insert or remove, the next_page_id_ chain from the
\* leftmost leaf visits every leaf exactly once and ends at INVALID_PAGE_ID, and
\* iterating from begin() yields exactly the keys of the tree in strictly
\* ascending order.
C25_LeafChain ==
  LET chain == LeafChain(bt)
      keys == IterKeys(bt, Begin(bt), Cardinality(AllBtKeys) + 1)
  IN /\ \A i \in 1..Len(chain) : chain[i] # NoPage
     /\ \A i, j \in 1..Len(chain) : i < j => chain[i] # chain[j]
     /\ {chain[i] : i \in 1..Len(chain)} = TreeLeaves(bt)
     /\ \A i, j \in 1..Len(keys) : i < j => keys[i] < keys[j]
     /\ {keys[i] : i \in 1..Len(keys)} = {key \in AllBtKeys : btlast.m[key] # 0}

\* C26: insert(k, v) of a key not in the tree followed by remove(k) leaves the
\* tree holding the key/value pairs it held before the insert; a tree left with
\* no pair reports IsEmpty and accepts an insert.
C26_InsertRemoveRoundTrip ==
  [][\A key \in BtKeys :
       (/\ btlast.op = "Insert" /\ btlast.key = key /\ btlast.ret = "true"
        /\ BtRemove(key)) =>
          /\ GetMap(bt') = btlast.before
          /\ (\A k \in AllBtKeys : btlast.before[k] = 0) =>
                /\ IsEmpty(bt')
                /\ BPlusTreeInsert(bt', key, 1).ret = "true"
    ]_btvars

\* the keys of every leaf of the chain, leaf by leaf
LeafKeys(page) == [i \in 1..GetSize(page) |-> page.array_[i][1]]
ChainKeys(t) ==
  LET chain == LeafChain(t)
  IN [i \in 1..Len(chain) |->
        IF chain[i] = NoPage THEN <<>> ELSE LeafKeys(t.pages[chain[i]])]

\* keys 1..10 were inserted in ascending order with both max sizes 4
AscendingTen ==
  /\ bt.leaf_max_size_ = 4
  /\ bt.internal_max_size_ = 4
  /\ btlast.n = 10

\* C27, as stated: with leaf_max_size = internal_max_size = 4, inserting keys
\* 1..10 in ascending order into an empty tree yields a tree of height 2 whose
\* leaf chain is [1,2],[3,4],[5,6],[7,8],[9,10].
C27_AscendingTen_FiveLeaves ==
  AscendingTen =>
    /\ Height(bt) = {2}
    /\ ChainKeys(bt) = <<<<1, 2>>, <<3, 4>>, <<5, 6>>, <<7, 8>>, <<9, 10>>>>

\* C27, amended: the tree has height 2 and the leaf chain is
\* [1,2],[3,4],[5,6],[7,8,9,10]: a leaf splits when it holds max_size + 1 = 5
\* keys, and the last leaf holds 4.
C27_AscendingTen_FourLeaves ==
  AscendingTen =>
    /\ Height(bt) = {2}
    /\ ChainKeys(bt) = <<<<1, 2>>, <<3, 4>>, <<5, 6>>, <<7, 8, 9, 10>>>>

C27_Witness ==
  /\ AscendingTen
  /\ btlast.op = "Insert" /\ btlast.key = 10 /\ btlast.ret = "true"
  /\ \A key \in 1..10 : GetValue(bt, key).ret = "true"

\* the first slot of the leaf whose key is >= key, as an iterator
FirstSlotAtLeast(t, key) ==
  LET found == FindLeafPage(t, key, "FIND", FALSE)
      AtLeast(e) == e[1] >= key
      index == FirstIndex(t.pages[found.leaf], 0, AtLeast)
  IN IF found.fault \/ found.leaf = NoPage THEN End
     ELSE IF index = GetSize(t.pages[found.leaf]) THEN End
     ELSE IndexIterator(found.leaf, index)

\* C28: begin(key) returns an iterator at the first slot of the located leaf
\* whose key is >= key, also when key is not stored; it returns end only when no
\* slot of that leaf has a key >= key.
C28_BeginAtFirstSlotAtLeast ==
  [][\A key \in BtKeys :
       BtBeginAt(key) => btlast'.it = FirstSlotAtLeast(bt, key)
    ]_btvars

\* ---- the index under concurrent calls
Unfinished(th) == thr[th].pc # "idle"

\* the latch the next step of th acquires: the root id latch (NoPage) or a page's
WantsLatch(th) ==
  \/ thr[th].pc \in {"LockRootPageId", "FetchPage", "GetBrother"}
  \/ thr[th].pc = "Construct" /\ thr[th].fetched
Target(th) == IF thr[th].pc = "LockRootPageId" THEN NoPage ELSE thr[th].current
WantsExclusive(th) == thr[th].pc # "Construct" /\ Exclusive(th)

\* the threads th waits for: the holders of the latch in a conflicting mode, and
\* for a read latch also the writers waiting for it (a latch that prefers
\* writers admits no reader while a writer waits)
BlockedBy(th) ==
  {o \in Threads \ {th} :
     /\ WantsLatch(th)
     /\ \/ HoldsW(o, Target(th))
        \/ WantsExclusive(th) /\ HoldsR(o, Target(th))
        \/ ~WantsExclusive(th) /\ WantsLatch(o) /\ WantsExclusive(o)
             /\ Target(o) = Target(th)}
Blocked(th) == BlockedBy(th) # {}

\* every thread of S waits for a latch that a thread of S holds
Deadlocked(S) ==
  /\ S # {}
  /\ \A th \in S : Blocked(th) /\ BlockedBy(th) \cap S # {}

C30_GetLinearizable ==
  \A th \in Threads :
    (thr[th].op = "GetValue" /\ thr[th].pc = "idle") => thr[th].result \in thr[th].seen


(***************************************************************************)
(* Lock manager claims on the state between calls (LMSpec)                 *)
(***************************************************************************)

\* the granted requests (t, m) of a request list
GrantedAs(q, t, m) == {i \in 1..Len(q) : q[i] = Req(t, m, TRUE)}
\* the requests of t in a request list
RequestsOf(q, t) == {i \in 1..Len(q) : q[i].txn = t}

\* C36: between lock-manager calls, a transaction's lock set for mode m
\* contains a resource exactly when the resource's queue holds a granted
\* request (t, m); a queue holds at most one request per transaction.
C36_LockSetQueueConsistent ==
  ~crashed =>
    /\ \A t \in Txns, m \in Modes, o \in Oids :
         (o \in tls[t][m]) <=> (GrantedAs(tmap[o].q, t, m) # {})
    /\ \A t \in Txns, m \in {"S", "X"}, r \in Rids :
         (r \in rls[t][m]) <=> (GrantedAs(rmap[r].q, t, m) # {})
    /\ \A t \in Txns, o \in Oids : Cardinality(RequestsOf(tmap[o].q, t)) <= 1
    /\ \A t \in Txns, r \in Rids : Cardinality(RequestsOf(rmap[r].q, t)) <= 1


(***************************************************************************)
(* Hash table directory (HTSpec)                                           *)
(***************************************************************************)
\* the buckets the directory points at, and the slots (from 0) pointing at b
DirBuckets(h) == {h.dir_[i] : i \in 1..Len(h.dir_)}
SlotsOf(h, b) == {i \in 0..(Len(h.dir_) - 1) : h.dir_[i + 1] = b}
\* the local depths of the buckets, by slot
SlotDepths(h) == [i \in 1..Len(h.dir_) |-> h.buckets[h.dir_[i]].depth_]

DirectoryShape(h) ==
  /\ Len(h.dir_) = Pow2(h.global_depth_)
  /\ h.num_buckets_ = Cardinality(DirBuckets(h))
  /\ \A b \in DirBuckets(h) :
       LET L == h.buckets[b].depth_
       IN /\ L <= h.global_depth_
          /\ Len(h.buckets[b].list_) <= BucketSize
          /\ Cardinality(SlotsOf(h, b)) = Pow2(h.global_depth_ - L)
          /\ \A i, j \in SlotsOf(h, b) : i % Pow2(L) = j % Pow2(L)
  /\ \A b \in 1..Len(h.buckets) : \A i \in 1..Len(h.buckets[b].list_) :
       h.dir_[IndexOf(h, h.buckets[b].list_[i][1]) + 1] = b

\* C35: after every insert or remove the directory has 2^G slots, every
\* bucket has local depth L <= G and at most bucket_size items and is
\* referenced by exactly the 2^(G-L) slots that agree on their low L bits,
\* every stored key lies in the bucket of slot hash(k) mod 2^G, num_buckets
\* is the number of distinct buckets, and remove changes neither G nor a
\* local depth nor the directory.
C35_DirectoryShape ==
  [][/\ DirectoryShape(ht')
     /\ \A key \in HashKeys :
          HtRemove(key) =>
            /\ ht'.global_depth_ = ht.global_depth_
            /\ ht'.dir_ = ht.dir_
            /\ ht'.num_buckets_ = ht.num_buckets_
            /\ SlotDepths(ht') = SlotDepths(ht)
    ]_htvars

\* a remove has emptied a bucket of a directory that doubled twice and holds
\* a bucket shared by two slots
C35_Witness ==
  /\ htlast.ret = "true" /\ htlast.value = 0
  /\ ht.global_depth_ = 2
  /\ \E b \in DirBuckets(ht) : ht.buckets[b].depth_ = 1
  /\ \E b \in DirBuckets(ht) : ht.buckets[b].depth_ = 2 /\ ht.buckets[b].list_ = <<>>


(***************************************************************************)
(* Buffer pool and replacer (BPSpec)                                       *)
(***************************************************************************)
\* the resident frames nobody pins, and the frames the replacer has a record of
UnpinnedFrames == {f \in ResidentFrames : pages_[f].pin_count_ = 0}
TrackedFrames ==
  {replacer_.access_history_[i].frame : i \in 1..Len(replacer_.access_history_)}

\* C37: after every buffer pool operation a frame is evictable in the
\* replacer exactly when it holds a resident page with pin_count 0, every
\* resident frame with pin_count > 0 is tracked as non-evictable, the frames
\* of the free list are not tracked, no pin_count is negative and
\* replacer.size() is the number of resident frames with pin_count 0.
C37_PoolReplacerAgree ==
  bplast.ret # "fault" =>
    /\ replacer_.evictable_map_ = UnpinnedFrames
    /\ ResidentFrames \ UnpinnedFrames \subseteq replacer_.non_evictable_map_
    /\ \A f \in ResidentFrames \ UnpinnedFrames : f \in TrackedFrames
    /\ \A f \in FreeFrames :
         /\ f \notin replacer_.evictable_map_
         /\ f \notin replacer_.non_evictable_map_
         /\ f \notin TrackedFrames
    /\ \A f \in PoolFrames : pages_[f].pin_count_ >= 0
    /\ Size(replacer_) = Cardinality(UnpinnedFrames)


(***************************************************************************)
(* B+-tree parent pointers (BTSpec)                                        *)
(***************************************************************************)
\* the internal nodes of the tree whose child array references page id
ParentsOf(t, id) ==
  {p \in TreeNodes(t) : /\ IsTreePage(t, p) /\ ~IsLeafPage(t.pages[p])
                        /\ id \in Children(t.pages[p])}

ParentPointersConsistent(t) ==
  IsEmpty(t) \/
    /\ IsTreePage(t, t.root_page_id_)
    /\ t.pages[t.root_page_id_].parent_page_id_ = INVALID_PAGE_ID
    /\ \A id \in TreeNodes(t) \ {t.root_page_id_} :
         /\ IsTreePage(t, id)
         /\ ParentsOf(t, id) = {t.pages[id].parent_page_id_}

\* C40: after every completed insert or remove, the parent_page_id of each
\* non-root node is the page id of the internal node whose child array
\* references it, and the root's parent_page_id is INVALID_PAGE_ID.
C40_ParentPointers == ~bt.fault => ParentPointersConsistent(bt)


(***************************************************************************)
(* Concurrent B+-tree: iterators, latches and pins (CCSpec)                *)
(***************************************************************************)

\* C39: an iterator that advances from a leaf to its next leaf while other
\* threads run remove latches a page that is still a leaf of the tree: the
\* next leaf has not been merged away and deleted since the iterator
\* released the current leaf.
C39_IteratorNextIsLeaf ==
  \A th \in Threads :
    (thr[th].op = "Advance" /\ thr[th].pc = "idle") =>
       /\ thr[th].ret # "fault"
       /\ thr[th].it # End => thr[th].it.page_ \in TreeLeaves(bt)

\* the thread that takes the step (a step of another thread changes at most
\* what a GetValue in progress has seen)
Acting(th) == [thr'[th] EXCEPT !.seen = {}] # [thr[th] EXCEPT !.seen = {}]

HoldsNothing(th) ==
  /\ thr[th].page_set = <<>>
  /\ thr[th].deleted_page_set = {}
  /\ \A page \in {NoPage} \cup (1..Len(bt.pages)) :
       ~HoldsW(th, page) /\ ~HoldsR(th, page) /\ ~Pins(th, page)

\* a call of th has returned and th has no live iterator
Returned(th) ==
  /\ thr[th].pc = "idle" /\ thr[th].n > 0
  /\ thr[th].ret # "fault"
  /\ thr[th].it = End

Grantable(Q, t) ==
  /\ WaitingPos(Q.q, t) \in 1..Len(Q.q)
  /\ CheckCompability(Q.q, WaitingPos(Q.q, t))

\* a step leaves t blocked on queue Q and makes its request grantable
MadeGrantable(t, w, Q, Q1) ==
  /\ wait[t] = w /\ wait'[t] = w
  /\ ~Grantable(Q, t) /\ Grantable(Q1, t)

\* C32 (no lost wake-up): every queue change that makes a blocked lock_table
\* or lock_row call grantable is followed by a broadcast on that queue, so
\* that the call re-evaluates its request and returns.
C32_ChangeIsBroadcast ==
  [][\A t \in DOMAIN wait :
       /\ \A o \in Oids :
            MadeGrantable(t, WaitOn(FALSE, o, NoRid), tmap[o], tmap'[o]) => t \in woken'
       /\ \A r \in Rids :
            MadeGrantable(t, WaitOn(TRUE, TableOf(r), r), rmap[r], rmap'[r]) => t \in woken'
    ]_vars


(***************************************************************************)
(* Lock manager: upgrades (UPSpec)                                         *)
(***************************************************************************)
\* the upgrade of Q.upgrading is in the queue and has not been granted
UpgradePending(Q) ==
  /\ Q.upgrading # INVALID_TXN_ID
  /\ \E i \in 1..Len(Q.q) : Q.q[i].txn = Q.upgrading /\ ~Q.q[i].granted

\* the call of the step has put a request of t into the queue of table o
Requested(t, o) ==
  /\ wait[t] = NoWait
  /\ last'.ret \in {"true", "wait"} /\ last'.reason \in {"granted", "-"}
  /\ tmap'[o].q # tmap[o].q
  /\ {tmap'[o].q[i] : i \in RequestsOf(tmap'[o].q, t)} # {tmap[o].q[i] : i \in RequestsOf(tmap[o].q, t)}

\* C31: an upgrade replaces the transaction's request by the new one,
\* placed immediately before the first ungranted request, and a request
\* that is no upgrade is appended at the tail; no request that waits on the
\* queue or arrives while the upgrade is pending is granted before the
\* upgrade is.
C31_UpgradeFirst ==
  [][\A o \in Oids :
       /\ \A t \in DOMAIN wait :
            Requested(t, o) =>
              IF last'.from = "-"
              THEN \E g \in BOOLEAN, m \in Modes :
                     tmap'[o].q = Append(tmap[o].q, Req(t, m, g))
              ELSE LET rest == Erase(tmap[o].q, FindTxn(tmap[o].q, t))
                   IN \E g \in BOOLEAN, m \in Modes :
                        tmap'[o].q = InsertAt(rest, FindUngranted(rest), Req(t, m, g))
       /\ UpgradePending(tmap'[o]) =>
            \A t \in DOMAIN wait :
              Cardinality(GrantedOf(tmap'[o].q, t)) <= Cardinality(GrantedOf(tmap[o].q, t))
    ]_vars

\* ------------------------------------- Lock manager: deadlocks (DLFairSpec)
\* t's blocked call waits on u: on the queue t is blocked on, u holds a
\* granted request whose mode is incompatible with t's ungranted one
WaitsFor(t, u) ==
  /\ t # u
  /\ wait[t] # NoWait
  /\ LET Q == IF wait[t].on = "row" THEN rmap[wait[t].id] ELSE tmap[wait[t].id]
     IN \E i, j \in 1..Len(Q.q) :
          /\ Q.q[i].txn = t /\ ~Q.q[i].granted
          /\ Q.q[j].txn = u /\ Q.q[j].granted
          /\ ~CompatibleMatrix(Q.q[i].mode, Q.q[j].mode)
RECURSIVE ReachesIn(_, _, _)
ReachesIn(t, u, n) ==
  \/ WaitsFor(t, u)
  \/ n > 1 /\ \E v \in DOMAIN wait : WaitsFor(t, v) /\ ReachesIn(v, u, n - 1)
Reaches(t, u) == ReachesIn(t, u, Cardinality(DOMAIN wait))
\* the transactions on a waits-for cycle through t
CycleOf(t) == {u \in DOMAIN wait : Reaches(t, u) /\ Reaches(u, t)}
Youngest(C) == CHOOSE t \in C : \A u \in C : u <= t

\* C33: whenever the waits-for relation has a cycle, the transaction with the
\* highest id on it is eventually ABORTED and every other transaction of the
\* cycle eventually obtains its lock.
C33_DeadlockResolved ==
  \A t \in Txns :
    /\ (CycleOf(t) # {} /\ t = Youngest(CycleOf(t))) ~> (state[t] = "ABORTED")
    /\ (CycleOf(t) # {} /\ t # Youngest(CycleOf(t))) ~> (wait[t] = NoWait)

====
